---- MODULE Spec2Model ----
(***************************************************************************)
(* Model of the MidiExtract batch pipeline: the parallel extraction        *)
(* workers (_process_single_file_standalone), the coordinating             *)
(* BatchProcessor.process_all (collection of results, sequential dedup     *)
(* pass, deferred source deletion) and MidiDeduplicator.register_file.     *)
(* MIDITrimmer.trim_file on a whole score and                              *)
(* MidiExtractor.extract_tracks_from_obj on a whole document are modelled  *)
(* in full and driven on their own (TrimSpec, ExtractSpec).                *)
(***************************************************************************)
EXTENDS Integers, Sequences, FiniteSets, TLC

\* ------------------------------------------------------------------ bounds
NumFiles == 2
MaxTracks == 2
CpuCount == 2
MaxCalls == 3
MaxNotes == 2
MaxEvents == 1
MaxTrims == 2
MaxDocTracks == 2
MaxDocMsgs == 3
MaxScanned == 2
MaxTimedTracks == 2
MaxTimedMsgs == 3
MaxNameParts == 4
MaxAddedMsgs == 2

\* ------------------------------------------------------- program constants
MaxWorkers == 4
min_trim_ticks == 480
DefaultBpm == 120
MicrosPerMinute == 60000000
PercussionChannel == 9

Files == 1..NumFiles

Min(a, b) == IF a < b THEN a ELSE b
Max(a, b) == IF a > b THEN a ELSE b

\* num_workers = min(multiprocessing.cpu_count(), 4)
num_workers == Min(CpuCount, MaxWorkers)

\* ------------------------------------------------------------ data domains
\* Instrument labels a track can resolve to (two of the labels suffice to
\* have tracks that share a folder and tracks that do not).
Instruments == {"Piano", "Unknown"}

\* bpm = filename_bpm or file_bpm or 120
Bpms == {DefaultBpm, 140}

\* Tick of the first note of a clip: below and above min_trim_ticks.
Leads == {0, 960}

\* No file at a path.
Absent == [instrument |-> "", has_notes |-> FALSE, lead |-> 0]

\* The bytes of a saved clip, as far as the pipeline can tell them apart: the
\* instrument the track resolves to, whether symusic finds any note in it (a
\* track qualifies with a lone note_off, which pairs to no note), and the tick
\* of its first note.
Clips ==
    {c \in [instrument : Instruments, has_notes : BOOLEAN, lead : Leads] :
        ~c.has_notes => c.lead = 0}

\* _build_folder_path + _build_filename + os.path.join: the output path is a
\* function of the instrument label and the file-level bpm (duration and
\* scale, file-level as well, are held fixed); neither the source file name
\* nor the track index enters it.
OutputPath(instrument, bpm) == <<instrument, bpm>>

Paths == {OutputPath(i, b) : i \in Instruments, b \in Bpms}

\* ------------------------------------------------------------- MIDITrimmer
\* A trimmer that cuts one threshold's worth of leading silence.
trim_start_threshold(first_note_time, min_ticks) ==
    IF first_note_time >= min_ticks THEN min_ticks ELSE 0

\* trim_start = first_note_time if first_note_time >= self.min_trim_ticks else 0
trim_start(first_note_time, min_ticks) ==
    IF first_note_time >= min_ticks THEN first_note_time ELSE 0

\* The same with the threshold the batch workers pass.
TrimStart(first_note_time) == trim_start(first_note_time, min_trim_ticks)

\* shift_events: note.time = max(0, note.time - shift_ticks)
ShiftEvents(clip, shift_ticks) ==
    IF shift_ticks = 0 THEN clip
    ELSE [clip EXCEPT !.lead = Max(0, clip.lead - shift_ticks)]

\* trim_file(input_path, output_path) on the content found at input_path:
\* success flag, error and the bytes dumped to output_path (Absent: nothing
\* is written).
TrimFile(input) ==
    IF input = Absent
    THEN [success |-> FALSE, error |-> "load_failed", written |-> Absent]
    ELSE IF ~input.has_notes
    THEN [success |-> FALSE, error |-> "no_notes", written |-> Absent]
    ELSE [success |-> TRUE, error |-> "",
          written |-> ShiftEvents(input, TrimStart(input.lead))]

\* ------------------------------------------- MIDITrimmer on a whole score
\* A symusic Score as far as the trimmer reads it: per track the notes (time,
\* duration) and the times of the control changes, pitch bends, pedals and
\* lyrics; for the score the times of the tempo, time-signature and
\* key-signature changes.
Ticks == {0, 200, 960}
Durations == {240}
ScoreTracks == {1, 2}
TrackEventKinds == {"controls", "pitch_bends", "pedals", "lyrics"}
ScoreEventKinds == {"tempos", "time_signatures", "key_signatures"}

\* MIDITrimmer(min_trim_ticks, trim_trailing)
Thresholds == {0, min_trim_ticks}

EmptyTrack ==
    [notes |-> <<>>, controls |-> <<>>, pitch_bends |-> <<>>, pedals |-> <<>>,
     lyrics |-> <<>>]

EmptyScore ==
    [tracks |-> [t \in ScoreTracks |-> EmptyTrack],
     tempos |-> <<>>, time_signatures |-> <<>>, key_signatures |-> <<>>]

\* The largest element of a list of ticks, 0 for the empty list.
RECURSIVE MaxOf(_)
MaxOf(ticks) ==
    IF ticks = <<>> THEN 0 ELSE Max(Head(ticks), MaxOf(Tail(ticks)))

NoteEnds(notes) == [k \in DOMAIN notes |-> notes[k].time + notes[k].duration]

\* Track.end(): the latest end of anything in the track.
TrackEnd(track) ==
    Max(MaxOf(NoteEnds(track.notes)),
        Max(Max(MaxOf(track.controls), MaxOf(track.pitch_bends)),
            Max(MaxOf(track.pedals), MaxOf(track.lyrics))))

\* score.end(): the latest end of anything in the score.
ScoreEnd(score) ==
    Max(MaxOf([t \in ScoreTracks |-> TrackEnd(score.tracks[t])]),
        Max(MaxOf(score.tempos),
            Max(MaxOf(score.time_signatures), MaxOf(score.key_signatures))))

\* (None, None) of find_note_boundaries.
NoBoundaries == [found |-> FALSE, first_note_time |-> 0, last_note_time |-> 0]

\* 'for note in track.notes:' of find_note_boundaries, from the boundaries b
\* found so far.
RECURSIVE NoteLoop(_, _)
NoteLoop(b, notes) ==
    IF notes = <<>> THEN b
    ELSE LET note_start == Head(notes).time
             note_end == Head(notes).time + Head(notes).duration
         IN NoteLoop(
                [found |-> TRUE,
                 first_note_time |->
                    IF ~b.found \/ note_start < b.first_note_time
                    THEN note_start ELSE b.first_note_time,
                 last_note_time |->
                    IF ~b.found \/ note_end > b.last_note_time
                    THEN note_end ELSE b.last_note_time],
                Tail(notes))

\* 'for track in score.tracks:' of find_note_boundaries, from track t on.
RECURSIVE TrackLoop(_, _, _)
TrackLoop(b, score, t) ==
    IF t \notin ScoreTracks THEN b
    ELSE TrackLoop(NoteLoop(b, score.tracks[t].notes), score, t + 1)

find_note_boundaries(score) == TrackLoop(NoBoundaries, score, 1)

\* sum(len(track.notes) for track in score.tracks)
RECURSIVE CountFrom(_, _)
CountFrom(score, t) ==
    IF t \notin ScoreTracks THEN 0
    ELSE Len(score.tracks[t].notes) + CountFrom(score, t + 1)

count_notes(score) == CountFrom(score, 1)

\* A shift that lets a time go below zero.
ShiftTick_unclamped(time, shift_ticks) == time - shift_ticks

\* x.time = max(0, x.time - shift_ticks)
ShiftTick(time, shift_ticks) == Max(0, time - shift_ticks)

ShiftTimes(times, shift_ticks) ==
    [k \in DOMAIN times |-> ShiftTick(times[k], shift_ticks)]

\* A shift that also cuts the shifted amount out of every note's duration.
ShiftNotes_clipped(notes, shift_ticks) ==
    [k \in DOMAIN notes |->
        [notes[k] EXCEPT !.time = ShiftTick(@, shift_ticks),
                         !.duration = Max(0, @ - shift_ticks)]]

ShiftNotes(notes, shift_ticks) ==
    [k \in DOMAIN notes |->
        [notes[k] EXCEPT !.time = ShiftTick(@, shift_ticks)]]

\* shift_events that moves everything but the notes.
shift_events_but_notes(score, shift_ticks) ==
    IF shift_ticks = 0 THEN score
    ELSE [tracks |-> [t \in ScoreTracks |->
                [notes |-> score.tracks[t].notes,
                 controls |-> ShiftTimes(score.tracks[t].controls, shift_ticks),
                 pitch_bends |-> ShiftTimes(score.tracks[t].pitch_bends, shift_ticks),
                 pedals |-> ShiftTimes(score.tracks[t].pedals, shift_ticks),
                 lyrics |-> ShiftTimes(score.tracks[t].lyrics, shift_ticks)]],
          tempos |-> ShiftTimes(score.tempos, shift_ticks),
          time_signatures |-> ShiftTimes(score.time_signatures, shift_ticks),
          key_signatures |-> ShiftTimes(score.key_signatures, shift_ticks)]

\* shift_events(score, shift_ticks), in place: the score afterwards.
shift_events(score, shift_ticks) ==
    IF shift_ticks = 0 THEN score
    ELSE [tracks |-> [t \in ScoreTracks |->
                [notes |-> ShiftNotes(score.tracks[t].notes, shift_ticks),
                 controls |-> ShiftTimes(score.tracks[t].controls, shift_ticks),
                 pitch_bends |-> ShiftTimes(score.tracks[t].pitch_bends, shift_ticks),
                 pedals |-> ShiftTimes(score.tracks[t].pedals, shift_ticks),
                 lyrics |-> ShiftTimes(score.tracks[t].lyrics, shift_ticks)]],
          tempos |-> ShiftTimes(score.tempos, shift_ticks),
          time_signatures |-> ShiftTimes(score.time_signatures, shift_ticks),
          key_signatures |-> ShiftTimes(score.key_signatures, shift_ticks)]

\* A trim_end that does not look at the trim_trailing flag.
trim_end_always(original_duration, last_note_time, cfg) ==
    IF original_duration - last_note_time >= cfg.min_trim_ticks
    THEN original_duration - last_note_time ELSE 0

\* trim_end = 0; if self.trim_trailing: trailing_space = ...
trim_end(original_duration, last_note_time, cfg) ==
    IF cfg.trim_trailing
    THEN LET trailing_space == original_duration - last_note_time
         IN IF trailing_space >= cfg.min_trim_ticks THEN trailing_space ELSE 0
    ELSE 0

\* TrimStatistics of the 'except Exception' branch of trim_file.
FailedStatistics ==
    [original_duration_ticks |-> 0, trimmed_start_ticks |-> 0,
     trimmed_end_ticks |-> 0, new_duration_ticks |-> 0, note_count |-> 0,
     first_note_time |-> 0, last_note_time |-> 0, tempo_count |-> 0,
     time_sig_count |-> 0, success |-> FALSE, error_message |-> "exception"]

\* trim_file(input_path, output_path) of a trimmer configured with cfg, on a
\* file that loads (or not) as the given score: the statistics returned and
\* the score dumped to output_path, if any.
trim_file(score, loads, cfg) ==
    IF ~loads THEN [stats |-> FailedStatistics, dumped |-> FALSE, output |-> score]
    ELSE
    LET original_duration == ScoreEnd(score)
        b == find_note_boundaries(score)
        note_count == count_notes(score)
    IN IF ~b.found
       THEN [stats |->
                [original_duration_ticks |-> original_duration,
                 trimmed_start_ticks |-> 0, trimmed_end_ticks |-> 0,
                 new_duration_ticks |-> original_duration, note_count |-> 0,
                 first_note_time |-> 0, last_note_time |-> 0,
                 tempo_count |-> Len(score.tempos),
                 time_sig_count |-> Len(score.time_signatures),
                 success |-> FALSE, error_message |-> "No notes found in file"],
             dumped |-> FALSE, output |-> score]
       ELSE LET start == trim_start(b.first_note_time, cfg.min_trim_ticks)
                end == trim_end(original_duration, b.last_note_time, cfg)
                shifted == IF start > 0 THEN shift_events(score, start) ELSE score
            IN [stats |->
                   [original_duration_ticks |-> original_duration,
                    trimmed_start_ticks |-> start, trimmed_end_ticks |-> end,
                    new_duration_ticks |-> ScoreEnd(shifted),
                    note_count |-> note_count,
                    first_note_time |-> b.first_note_time,
                    last_note_time |-> b.last_note_time,
                    tempo_count |-> Len(shifted.tempos),
                    time_sig_count |-> Len(shifted.time_signatures),
                    success |-> TRUE, error_message |-> ""],
                dumped |-> TRUE, output |-> shifted]

\* ----------------------------------------------------------- MidiExtractor
\* GM_INSTRUMENTS at the two ends of the table.
Programs == {0, 127}
GM_INSTRUMENTS == [p \in Programs |-> IF p = 0 THEN "Acoustic Piano" ELSE "Gunshot"]

\* msg.tempo of a set_tempo message: 0, 12.5 and 7.5 beats per minute.
Tempos == {0, 4800000, 8000000}

Msg(type, channel, program, tempo) ==
    [type |-> type, channel |-> channel, program |-> program, tempo |-> tempo,
     name |-> IF type = "track_name" THEN "name" ELSE ""]

\* The mido messages a track is made of here.
DocMsgs ==
    {Msg("note_on", c, 0, 0) : c \in {0, PercussionChannel}}
    \cup {Msg("note_off", 0, 0, 0), Msg("track_name", 0, 0, 0)}
    \cup {Msg("program_change", 0, p, 0) : p \in Programs}
    \cup {Msg("set_tempo", 0, 0, t) : t \in Tempos}

\* hasattr(msg, 'channel'): channel messages have one, meta messages do not.
HasChannel(msg) == msg.type \in {"note_on", "note_off", "program_change"}

\* Python's round() of the quotient n / d: to the nearest integer, a tie to
\* the even one.
Round(n, d) ==
    LET q == n \div d
        r == n % d
    IN IF 2 * r < d THEN q
       ELSE IF 2 * r > d THEN q + 1
       ELSE IF q % 2 = 0 THEN q ELSE q + 1

\* file_bpm: None, or a number.
NoBpm == [none |-> TRUE, value |-> 0]
Bpm(value) == [none |-> FALSE, value |-> value]

\* 'for msg in track:' of the tempo search that keeps the last set_tempo of
\* the track.
RECURSIVE TempoInTrack_last(_)
TempoInTrack_last(msgs) ==
    IF msgs = <<>> THEN [raised |-> FALSE, file_bpm |-> NoBpm]
    ELSE LET rest == TempoInTrack_last(Tail(msgs))
         IN IF Head(msgs).type # "set_tempo" \/ rest.raised \/ ~rest.file_bpm.none
            THEN rest
            ELSE IF Head(msgs).tempo = 0
            THEN [raised |-> TRUE, file_bpm |-> NoBpm]
            ELSE [raised |-> FALSE,
                  file_bpm |-> Bpm(Round(MicrosPerMinute, Head(msgs).tempo))]

\* 'for msg in track:' of the tempo search: the first set_tempo sets file_bpm
\* and breaks; a tempo of 0 raises ZeroDivisionError.
RECURSIVE TempoInTrack(_)
TempoInTrack(msgs) ==
    IF msgs = <<>> THEN [raised |-> FALSE, file_bpm |-> NoBpm]
    ELSE IF Head(msgs).type = "set_tempo"
    THEN IF Head(msgs).tempo = 0
         THEN [raised |-> TRUE, file_bpm |-> NoBpm]
         ELSE [raised |-> FALSE,
               file_bpm |-> Bpm(Round(MicrosPerMinute, Head(msgs).tempo))]
    ELSE TempoInTrack(Tail(msgs))

\* 'for track in midi_file.tracks:' of the tempo search, inside the try: a
\* truthy file_bpm breaks, an exception leaves file_bpm as it was (None).
RECURSIVE TempoInTracks(_)
TempoInTracks(tracks) ==
    IF tracks = <<>> THEN NoBpm
    ELSE LET r == TempoInTrack(Head(tracks))
         IN IF r.raised THEN NoBpm
            ELSE IF ~r.file_bpm.none /\ r.file_bpm.value # 0 THEN r.file_bpm
            ELSE TempoInTracks(Tail(tracks))

\* A note check that knows note_on only.
IsNoteEvent_on_only(msg) == msg.type = "note_on"

\* msg.type in ('note_on', 'note_off')
IsNoteEvent(msg) == msg.type \in {"note_on", "note_off"}

\* Locals of _extract_track_data before the pass.
TrackLocals ==
    [has_notes |-> FALSE, track_name |-> "", instrument_name |-> "Unknown",
     program_change |-> 0, is_percussion |-> FALSE,
     found_track_name |-> FALSE, found_program_change |-> FALSE]

\* An early exit that does not wait for a program change.
EarlyExit_hasty(st) == st.has_notes /\ st.found_track_name

\* if has_notes and found_track_name and found_program_change: break
EarlyExit(st) == st.has_notes /\ st.found_track_name /\ st.found_program_change

\* The body of 'for msg in track:' up to the early exit.
MsgStep(st, msg) ==
    LET s1 == IF ~st.has_notes /\ IsNoteEvent(msg)
              THEN [st EXCEPT !.has_notes = TRUE] ELSE st
        s2 == IF ~s1.found_track_name /\ msg.type = "track_name"
              THEN [s1 EXCEPT !.track_name = msg.name, !.found_track_name = TRUE]
              ELSE s1
        s3 == IF ~s2.found_program_change /\ msg.type = "program_change"
              THEN [s2 EXCEPT !.program_change = msg.program,
                              !.instrument_name = GM_INSTRUMENTS[msg.program],
                              !.found_program_change = TRUE]
              ELSE s2
    IN IF ~s3.is_percussion /\ HasChannel(msg) /\ msg.channel = PercussionChannel
       THEN [s3 EXCEPT !.is_percussion = TRUE] ELSE s3

RECURSIVE MsgLoop(_, _)
MsgLoop(st, msgs) ==
    IF msgs = <<>> THEN st
    ELSE LET next == MsgStep(st, Head(msgs))
         IN IF EarlyExit(next) THEN next ELSE MsgLoop(next, Tail(msgs))

\* 'return None' of _extract_track_data.
NoTrackData == [none |-> TRUE]

\* _extract_track_data(track, track_idx, midi_file).  program_change is None
\* until a program change is found; 'not program_change' holds for None and
\* for program 0.
extract_track_data(track, track_idx) ==
    LET st == MsgLoop(TrackLocals, track)
    IN IF ~st.has_notes THEN NoTrackData
       ELSE [none |-> FALSE,
             track_index |-> track_idx,
             track_name |-> st.track_name,
             instrument |->
                IF (~st.found_program_change \/ st.program_change = 0)
                   /\ st.is_percussion
                THEN "Percussion" ELSE st.instrument_name,
             has_program |-> st.found_program_change,
             program_change |-> st.program_change,
             midi_data |-> track]

\* 'for track_idx, track in enumerate(midi_file.tracks):' from the track at
\* position i on (track_idx = i - 1).
RECURSIVE ExtractFrom(_, _)
ExtractFrom(midi_file, i) ==
    IF i > Len(midi_file) THEN <<>>
    ELSE LET track_data == extract_track_data(midi_file[i], i - 1)
         IN IF track_data.none THEN ExtractFrom(midi_file, i + 1)
            ELSE <<track_data>> \o ExtractFrom(midi_file, i + 1)

\* A no-tracks return that carries no message.
NoTracksReturn_silent(file_bpm) ==
    [tracks |-> <<>>, tracks_none |-> TRUE, file_bpm |-> file_bpm, error |-> ""]

\* return None, file_bpm, "No non-empty tracks found in MIDI file"
NoTracksReturn(file_bpm) ==
    [tracks |-> <<>>, tracks_none |-> TRUE, file_bpm |-> file_bpm,
     error |-> "No non-empty tracks found in MIDI file"]

\* extract_tracks_from_obj(midi_file): (tracks, file_bpm, error_message);
\* tracks is None (tracks_none) when no track qualifies.
extract_tracks_from_obj(midi_file) ==
    LET file_bpm == TempoInTracks(midi_file)
        tracks == ExtractFrom(midi_file, 1)
    IN IF tracks = <<>> THEN NoTracksReturn(file_bpm)
       ELSE [tracks |-> tracks, tracks_none |-> FALSE, file_bpm |-> file_bpm,
             error |-> ""]

\* -------------------------------------------------------- MidiDeduplicator
\* compute_file_hash: SHA256 of the bytes, None for a missing file.  The
\* digest is injective on the content.
None == <<>>

\* compute_file_hash that hashes what it could read of an unreadable file
\* instead of returning None.
ComputeFileHash_partial(content) == <<"sha256", content>>

ComputeFileHash(content) ==
    IF content = Absent THEN None ELSE <<"sha256", content>>

\* os.path.getsize of a file that exists: a clip with notes is longer than one
\* without.
GetSize(content) == IF content.has_notes THEN 2 ELSE 1

\* register_file that lets a later registration take the digest's entry.
RegisterFile_lastwins(hashes, dups, bytes, file_path, content) ==
    LET file_hash == ComputeFileHash(content) IN
    IF file_hash = None
    THEN [is_dup |-> FALSE, canonical |-> None, hashes |-> hashes, dups |-> dups,
          bytes |-> bytes]
    ELSE [is_dup |-> file_hash \in DOMAIN hashes,
          canonical |-> IF file_hash \in DOMAIN hashes THEN hashes[file_hash] ELSE None,
          hashes |-> [h \in DOMAIN hashes \cup {file_hash} |->
                        IF h = file_hash THEN file_path ELSE hashes[h]],
          dups |-> IF file_hash \in DOMAIN hashes THEN dups + 1 ELSE dups,
          bytes |-> IF file_hash \in DOMAIN hashes THEN bytes + GetSize(content)
                    ELSE bytes]

\* register_file on a file with the given content: the result pair and the
\* deduplicator's fields afterwards (file_hashes, duplicates_found,
\* bytes_saved).
RegisterFile(hashes, dups, bytes, file_path, content) ==
    LET file_hash == ComputeFileHash(content) IN
    IF file_hash = None
    THEN [is_dup |-> FALSE, canonical |-> None, hashes |-> hashes, dups |-> dups,
          bytes |-> bytes]
    ELSE IF file_hash \in DOMAIN hashes
    THEN [is_dup |-> TRUE, canonical |-> hashes[file_hash],
          hashes |-> hashes, dups |-> dups + 1, bytes |-> bytes + GetSize(content)]
    ELSE [is_dup |-> FALSE, canonical |-> None,
          hashes |-> [h \in DOMAIN hashes \cup {file_hash} |->
                        IF h = file_hash THEN file_path ELSE hashes[h]],
          dups |-> dups, bytes |-> bytes]

\* ------------------------------------------------------------------- state
VARIABLES
    mode,             \* "batch": a process_all run; "register": calls on a deduplicator alone
    trim,             \* BatchProcessor.trim
    delete_after,     \* BatchProcessor.delete_after_processing
    src,              \* source files present in midi_files_dir
    disk,             \* output files: path -> content or Absent
    tmp,              \* '_temp.mid' intermediates: output path -> content or Absent
    fut,              \* state of each file's future
    worker,           \* position and locals of each file's worker
    phase,            \* position of process_all
    all_results,
    files_to_delete,
    stats,
    dedup_i,          \* index of the next entry of the dedup loop
    file_hashes,      \* MidiDeduplicator.file_hashes
    duplicates_found, \* MidiDeduplicator.duplicates_found
    bytes_saved,      \* MidiDeduplicator.bytes_saved
    delete_i,         \* index of the next entry of the deletion loop
    calls,            \* register_file calls made on the lone deduplicator
    score,            \* the file a lone MIDITrimmer works on, as a Score
    trim_cfg,         \* MIDITrimmer.min_trim_ticks and .trim_trailing
    trim_runs,        \* trim_file calls made on that file
    doc,              \* the MidiFile a lone MidiExtractor works on
    extraction,       \* what extract_tracks_from_obj returned for it
    trim_report,      \* a standalone trim run: its directory, TrimReport, exit
    timing,           \* a MidiFile and what get_duration_seconds returned
    detection,        \* a MidiFile, a hint and what detect_scale returned
    metadata          \* a filename and what parse_filename_metadata returned

vars == <<mode, trim, delete_after, src, disk, tmp, fut, worker, phase,
          all_results, files_to_delete, stats, dedup_i, file_hashes,
          duplicates_found, bytes_saved, delete_i, calls,
          score, trim_cfg, trim_runs, doc, extraction,
          trim_report, timing, detection, metadata>>

\* The trimmer and the extractor driven on their own; a batch run and the
\* lone deduplicator leave them alone.
units == <<trim_report, timing, detection, metadata>>
alone == <<score, trim_cfg, trim_runs, doc, extraction, units>>

config == <<mode, trim, delete_after, alone>>
coord == <<phase, all_results, files_to_delete, stats, dedup_i, file_hashes,
           duplicates_found, bytes_saved, delete_i, calls>>

EmptyFn == [x \in {} |-> x]

NoStats == [success |-> FALSE, error |-> ""]

\* Locals of a worker: position, track counter i of n, file-level bpm, the
\* current output_path, the score loaded by trim_file, trim_stats,
\* extraction_log; and, for the record, the
\* track indices handed to save_track and those it saved.
IdleWorker ==
    [pc |-> "idle", i |-> 0, n |-> 0, bpm |-> 0, path |-> None, score |-> Absent,
     trim_stats |-> NoStats, log |-> <<>>, attempted |-> <<>>, saved |-> {}]

InitCommon ==
    /\ src = Files
    /\ disk = [p \in Paths |-> Absent]
    /\ tmp = [p \in Paths |-> Absent]
    /\ fut = [f \in Files |-> "pending"]
    /\ worker = [f \in Files |-> IdleWorker]
    /\ phase = "extract"
    /\ all_results = <<>>
    /\ files_to_delete = <<>>
    /\ stats = [processed |-> 0, skipped_corrupted |-> 0, extracted_tracks |-> 0,
                duplicates_skipped |-> 0, timeouts |-> 0, errors |-> <<>>]
    /\ dedup_i = 1
    /\ file_hashes = EmptyFn
    /\ duplicates_found = 0
    /\ bytes_saved = 0
    /\ delete_i = 1
    /\ calls = <<>>

DefaultTrimCfg == [min_trim_ticks |-> min_trim_ticks, trim_trailing |-> TRUE]

NotExtracted == [pc |-> "document"]

TrimmerIdle ==
    /\ score = EmptyScore
    /\ trim_cfg = DefaultTrimCfg
    /\ trim_runs = <<>>

ExtractorIdle ==
    /\ doc = <<>>
    /\ extraction = NotExtracted

NoTrimRun == [pc |-> "idle"]
NoTiming == [pc |-> "idle"]
NoDetection == [pc |-> "idle"]
NoMetadata == [pc |-> "idle"]

TrimRunIdle == trim_report = NoTrimRun
TimingIdle == timing = NoTiming
DetectorIdle == detection = NoDetection
ParserIdle == metadata = NoMetadata
UnitsIdle == TrimRunIdle /\ TimingIdle /\ DetectorIdle /\ ParserIdle

\* BatchProcessor.__init__ and the submission of every listed file.
Init ==
    /\ mode = "batch"
    /\ trim \in BOOLEAN
    /\ delete_after \in BOOLEAN
    /\ InitCommon
    /\ TrimmerIdle
    /\ ExtractorIdle
    /\ UnitsIdle

\* ------------------------------------------ _process_single_file_standalone
Running == {f \in Files : fut[f] = "running"}

\* The track loop moves on to the next track, or returns the log after the
\* last one.
NextTrack(w) ==
    IF w.i < w.n
    THEN [w EXCEPT !.pc = "save", !.i = w.i + 1, !.path = None,
                   !.trim_stats = NoStats]
    ELSE [w EXCEPT !.pc = "done", !.path = None, !.trim_stats = NoStats]

\* A track failure that leaves the loop and returns what was logged so far.
TrackFailed_abort(w) ==
    [w EXCEPT !.pc = "done", !.path = None, !.trim_stats = NoStats]

\* 'except Exception: pass' of the track loop, and 'continue' after a failed
\* trim: the loop goes on with the next track.
TrackFailed(w) == NextTrack(w)

LogEntry(f, w) ==
    [source_file |-> f, track_index |-> w.i, output_path |-> w.path,
     is_duplicate |-> FALSE]

\* extraction_log.append({...}) followed by the next iteration.
TrackLogged(f, w) == NextTrack([w EXCEPT !.log = Append(w.log, LogEntry(f, w))])

\* The future of a worker whose function has returned holds its result; the
\* worker may have taken longer than the configured timeout to get there.
FutAfter(f, w, late) ==
    IF w.pc = "done"
    THEN [fut EXCEPT ![f] = IF late THEN "finished_late" ELSE "finished"]
    ELSE fut

\* The bpm of a file comes from its name or its first tempo event.  The first
\* file has the default; every other file has any of the values, the same or
\* another one.
FileBpms(f) == IF f = 1 THEN {DefaultBpm} ELSE Bpms

\* A pool worker picks the task up and runs the function up to the track
\* loop: MidiFile(path), detect_scale, extract_tracks_from_obj.  A missing,
\* unreadable or note-less file returns the empty log.
WorkerStart(f) ==
    /\ mode = "batch" /\ phase = "extract"
    /\ fut[f] = "pending"
    /\ Cardinality(Running) < num_workers
    /\ \E n \in 0..MaxTracks, bpm \in FileBpms(f), late \in BOOLEAN :
          LET w == IF n = 0
                   THEN [IdleWorker EXCEPT !.pc = "done"]
                   ELSE [IdleWorker EXCEPT !.pc = "save", !.i = 1, !.n = n,
                                           !.bpm = bpm]
          IN /\ worker' = [worker EXCEPT ![f] = w]
             /\ fut' = IF n = 0 THEN FutAfter(f, w, late)
                       ELSE [fut EXCEPT ![f] = "running"]
    /\ UNCHANGED <<config, src, disk, tmp, coord>>

\* MidiExtractor.save_track(track_data, output_path): writes the clip, or
\* swallows its own exception and returns False, which the caller ignores.
\* With trimming disabled the log record follows at once.
SaveTrack(f) ==
    /\ mode = "batch" /\ fut[f] = "running" /\ worker[f].pc = "save"
    /\ \E clip \in Clips, ok \in BOOLEAN, late \in BOOLEAN :
          LET path == OutputPath(clip.instrument, worker[f].bpm)
              w0 == [worker[f] EXCEPT
                        !.path = path,
                        !.attempted = Append(@, worker[f].i),
                        !.saved = IF ok THEN @ \cup {worker[f].i} ELSE @]
              w1 == IF trim THEN [w0 EXCEPT !.pc = "rename"] ELSE TrackLogged(f, w0)
          IN /\ disk' = IF ok THEN [disk EXCEPT ![path] = clip] ELSE disk
             /\ worker' = [worker EXCEPT ![f] = w1]
             /\ fut' = FutAfter(f, w1, late)
    /\ UNCHANGED <<config, src, tmp, coord>>

\* os.rename(output_path, temp_path): FileNotFoundError when nothing is at
\* output_path, caught by the track's except.
RenameToTemp(f) ==
    /\ mode = "batch" /\ fut[f] = "running" /\ worker[f].pc = "rename"
    /\ \E late \in BOOLEAN :
       LET path == worker[f].path
           w1 == IF disk[path] = Absent THEN TrackFailed(worker[f])
                 ELSE [worker[f] EXCEPT !.pc = "trim"]
       IN /\ IF disk[path] = Absent
             THEN UNCHANGED <<disk, tmp>>
             ELSE /\ tmp' = [tmp EXCEPT ![path] = disk[path]]
                  /\ disk' = [disk EXCEPT ![path] = Absent]
          /\ worker' = [worker EXCEPT ![f] = w1]
          /\ fut' = FutAfter(f, w1, late)
    /\ UNCHANGED <<config, src, coord>>

\* trim_stats = trimmer.trim_file(Path(temp_path), Path(output_path)), first
\* half: symusic.Score(temp_path) and the computation on the loaded score.
\* Every failure is caught inside trim_file and reported in the statistics.
TrimLoad(f) ==
    /\ mode = "batch" /\ fut[f] = "running" /\ worker[f].pc = "trim"
    /\ LET ts == TrimFile(tmp[worker[f].path])
       IN worker' = [worker EXCEPT ![f] =
                [@ EXCEPT !.pc = IF ts.success THEN "dump" ELSE "remove",
                          !.score = ts.written,
                          !.trim_stats = [success |-> ts.success, error |-> ts.error]]]
    /\ UNCHANGED <<config, src, disk, tmp, fut, coord>>

\* trim_file, second half: score.dump_midi(str(output_path)).
TrimDump(f) ==
    /\ mode = "batch" /\ fut[f] = "running" /\ worker[f].pc = "dump"
    /\ disk' = [disk EXCEPT ![worker[f].path] = worker[f].score]
    /\ worker' = [worker EXCEPT ![f] = [@ EXCEPT !.pc = "remove", !.score = Absent]]
    /\ UNCHANGED <<config, src, tmp, fut, coord>>

\* os.remove(temp_path), then 'if not trim_stats.success: continue', then the
\* log record.  FileNotFoundError when the intermediate is gone.
RemoveTemp(f) ==
    /\ mode = "batch" /\ fut[f] = "running" /\ worker[f].pc = "remove"
    /\ \E late \in BOOLEAN :
       LET path == worker[f].path
           w1 == IF tmp[path] = Absent THEN TrackFailed(worker[f])
                 ELSE IF ~worker[f].trim_stats.success THEN TrackFailed(worker[f])
                 ELSE TrackLogged(f, worker[f])
       IN /\ tmp' = [tmp EXCEPT ![path] = Absent]
          /\ worker' = [worker EXCEPT ![f] = w1]
          /\ fut' = FutAfter(f, w1, late)
    /\ UNCHANGED <<config, src, disk, coord>>

\* A terminated worker process has no locals left.
DeadWorker == [IdleWorker EXCEPT !.pc = "dead"]

\* A worker process dies: the pool is broken, every future that is not done
\* gets BrokenProcessPool and the remaining workers are terminated.
WorkerCrash(f) ==
    /\ mode = "batch" /\ fut[f] = "running"
    /\ fut' = [g \in Files |-> IF fut[g] \in {"pending", "running"}
                               THEN "broken" ELSE fut[g]]
    /\ worker' = [g \in Files |-> IF fut[g] \in {"pending", "running"}
                                  THEN DeadWorker ELSE worker[g]]
    /\ UNCHANGED <<config, src, disk, tmp, coord>>

\* ------------------------------------------------ BatchProcessor.process_all
\* The dedup pass starting as soon as one result is in.
AllCollected_any == \E f \in Files : fut[f] = "collected"

\* The as_completed loop has yielded every submitted future.
AllCollected == \A f \in Files : fut[f] = "collected"

\* future.result(timeout=self.timeout) on a future that as_completed has
\* yielded: the future is done, so the call returns the worker's log or
\* raises the exception stored in the future; it never waits.
FutureResult(f) ==
    IF fut[f] \in {"finished", "finished_late"} THEN [kind |-> "result", file_log |-> worker[f].log]
    ELSE [kind |-> "exception", file_log |-> <<>>]

\* The worker's function has returned and its result has been handed over.
CollectedWorker == [IdleWorker EXCEPT !.pc = "collected"]

\* A count that leaves a file whose future raised out of every counter.
CountOutcome_errors_uncounted(st, r, f) ==
    CASE r.kind = "result" /\ r.file_log # <<>> ->
           [st EXCEPT !.processed = @ + 1,
                      !.extracted_tracks = @ + Len(r.file_log)]
      [] r.kind = "result" /\ r.file_log = <<>> ->
           [st EXCEPT !.skipped_corrupted = @ + 1]
      [] r.kind = "timeout" ->
           [st EXCEPT !.timeouts = @ + 1,
                      !.errors = Append(@, <<"timeout", f>>)]
      [] OTHER ->
           [st EXCEPT !.errors = Append(@, <<"error", f>>)]

\* self.stats after the try/except of one iteration, by the outcome r of
\* future.result for file f.
CountOutcome(st, r, f) ==
    CASE r.kind = "result" /\ r.file_log # <<>> ->
           [st EXCEPT !.processed = @ + 1,
                      !.extracted_tracks = @ + Len(r.file_log)]
      [] r.kind = "result" /\ r.file_log = <<>> ->
           [st EXCEPT !.skipped_corrupted = @ + 1]
      [] r.kind = "timeout" ->
           [st EXCEPT !.timeouts = @ + 1,
                      !.errors = Append(@, <<"timeout", f>>)]
      [] OTHER ->
           [st EXCEPT !.errors = Append(@, <<"error", f>>),
                      !.skipped_corrupted = @ + 1]

\* A schedule that holds only the files that produced a log.
ScheduleDeletion_processed_only(scheduled, r, f) ==
    IF r.kind = "result" /\ r.file_log # <<>> THEN Append(scheduled, f)
    ELSE scheduled

\* files_to_delete.append(full_midi_path): in each of the four branches.
ScheduleDeletion(scheduled, r, f) == Append(scheduled, f)

\* One iteration of 'for future in as_completed(future_to_file)': any future
\* that is done and not yet handled.
Collect(f) ==
    /\ mode = "batch" /\ phase = "extract"
    /\ fut[f] \in {"finished", "finished_late", "broken"}
    /\ LET r == FutureResult(f) IN
       /\ stats' = CountOutcome(stats, r, f)
       /\ all_results' = IF r.kind = "result" THEN all_results \o r.file_log
                         ELSE all_results
       /\ files_to_delete' = ScheduleDeletion(files_to_delete, r, f)
    /\ fut' = [fut EXCEPT ![f] = "collected"]
    /\ worker' = [worker EXCEPT ![f] = CollectedWorker]
    /\ UNCHANGED <<config, src, disk, tmp, phase, dedup_i, file_hashes,
                   duplicates_found, bytes_saved, delete_i, calls>>

\* The as_completed loop is exhausted and the executor shut down; Phase 2
\* starts with a fresh MidiDeduplicator().
StartDedup ==
    /\ mode = "batch" /\ phase = "extract"
    /\ AllCollected
    /\ phase' = "dedup"
    /\ dedup_i' = 1
    /\ file_hashes' = EmptyFn
    /\ duplicates_found' = 0
    /\ bytes_saved' = 0
    /\ UNCHANGED <<config, src, disk, tmp, fut, worker, all_results,
                   files_to_delete, stats, delete_i, calls>>

\* One iteration of 'for entry in all_results'.
DedupEntry ==
    /\ mode = "batch" /\ phase = "dedup"
    /\ dedup_i <= Len(all_results)
    /\ LET entry == all_results[dedup_i]
           path == entry.output_path
       IN IF disk[path] # Absent
          THEN LET r == RegisterFile(file_hashes, duplicates_found, bytes_saved,
                                    path, disk[path])
               IN /\ file_hashes' = r.hashes
                  /\ duplicates_found' = r.dups
                  /\ bytes_saved' = r.bytes
                  /\ IF r.is_dup
                     THEN /\ stats' = [stats EXCEPT !.duplicates_skipped = @ + 1]
                          /\ disk' = [disk EXCEPT ![path] = Absent]
                          /\ all_results' =
                                [all_results EXCEPT ![dedup_i] =
                                    [entry EXCEPT !.output_path = r.canonical,
                                                  !.is_duplicate = TRUE]]
                     ELSE UNCHANGED <<stats, disk, all_results>>
          ELSE UNCHANGED <<file_hashes, duplicates_found, bytes_saved, stats, disk,
                           all_results>>
    /\ dedup_i' = dedup_i + 1
    /\ UNCHANGED <<config, src, tmp, fut, worker, phase, files_to_delete,
                   delete_i, calls>>

DedupFinished == phase = "dedup" /\ dedup_i > Len(all_results)

\* 'if self.delete_after_processing:' after the dedup loop.
FinishDedup ==
    /\ mode = "batch"
    /\ DedupFinished
    /\ phase' = IF delete_after THEN "delete" ELSE "done"
    /\ UNCHANGED <<config, src, disk, tmp, fut, worker, all_results,
                   files_to_delete, stats, dedup_i, file_hashes,
                   duplicates_found, bytes_saved, delete_i, calls>>

\* A failed os.remove that ends the deletion loop.
AfterDeleteFailure_abort(i) == Len(files_to_delete) + 1

\* After a failed os.remove of a source file the loop goes on with the next
\* file.
AfterDeleteFailure(i) == i + 1

\* One iteration of 'for file_path in files_to_delete': os.remove succeeds,
\* or raises and the failure is appended to stats['errors'].
DeleteSource ==
    /\ mode = "batch" /\ phase = "delete"
    /\ delete_i <= Len(files_to_delete)
    /\ LET f == files_to_delete[delete_i] IN
       \E ok \in BOOLEAN :
          IF f \in src
          THEN IF ok
               THEN /\ src' = src \ {f}
                    /\ delete_i' = delete_i + 1
                    /\ UNCHANGED stats
               ELSE /\ stats' = [stats EXCEPT !.errors = Append(@, <<"delete_failed", f>>)]
                    /\ delete_i' = AfterDeleteFailure(delete_i)
                    /\ UNCHANGED src
          ELSE /\ delete_i' = delete_i + 1
               /\ UNCHANGED <<src, stats>>
    /\ UNCHANGED <<config, disk, tmp, fut, worker, phase, all_results,
                   files_to_delete, dedup_i, file_hashes, duplicates_found, bytes_saved,
                   calls>>

\* The deletion loop is exhausted: _print_summary, _save_extraction_log.
FinishDelete ==
    /\ mode = "batch" /\ phase = "delete"
    /\ delete_i > Len(files_to_delete)
    /\ phase' = "done"
    /\ UNCHANGED <<config, src, disk, tmp, fut, worker, all_results,
                   files_to_delete, stats, dedup_i, file_hashes,
                   duplicates_found, bytes_saved, delete_i, calls>>

Next ==
    \/ \E f \in Files : WorkerStart(f)
    \/ \E f \in Files : SaveTrack(f)
    \/ \E f \in Files : RenameToTemp(f)
    \/ \E f \in Files : TrimLoad(f)
    \/ \E f \in Files : TrimDump(f)
    \/ \E f \in Files : RemoveTemp(f)
    \/ \E f \in Files : WorkerCrash(f)
    \/ \E f \in Files : Collect(f)
    \/ StartDedup
    \/ DedupEntry
    \/ FinishDedup
    \/ DeleteSource
    \/ FinishDelete

Spec == Init /\ [][Next]_vars

\* ------------------------------------- a MidiDeduplicator driven on its own
\* Any sequence of register_file calls, each on a path whose file has some
\* content at the time of the call (Absent: the file cannot be read).
RegisterInit ==
    /\ mode = "register"
    /\ trim = FALSE
    /\ delete_after = FALSE
    /\ InitCommon
    /\ TrimmerIdle
    /\ ExtractorIdle
    /\ UnitsIdle

RegisterCall ==
    /\ mode = "register"
    /\ Len(calls) < MaxCalls
    /\ \E path \in Paths, content \in Clips \cup {Absent} :
          LET r == RegisterFile(file_hashes, duplicates_found, bytes_saved,
                                path, content)
          IN /\ file_hashes' = r.hashes
             /\ duplicates_found' = r.dups
             /\ bytes_saved' = r.bytes
             /\ calls' = Append(calls, [path |-> path, content |-> content,
                                        is_dup |-> r.is_dup,
                                        canonical |-> r.canonical,
                                        hashes_before |-> file_hashes])
    /\ UNCHANGED <<config, src, disk, tmp, fut, worker, phase, all_results,
                   files_to_delete, stats, dedup_i, delete_i>>

RegisterNext == RegisterCall

RegisterSpec == RegisterInit /\ [][RegisterNext]_vars

\* ------------------------------------------ a MIDITrimmer driven on its own
\* What a batch run holds, untouched by the lone trimmer and extractor.
pipeline == <<mode, trim, delete_after, src, disk, tmp, fut, worker, coord>>

TrimInit ==
    /\ mode = "trim"
    /\ trim = FALSE
    /\ delete_after = FALSE
    /\ InitCommon
    /\ score = EmptyScore
    /\ trim_cfg \in [min_trim_ticks : Thresholds, trim_trailing : BOOLEAN]
    /\ trim_runs = <<>>
    /\ ExtractorIdle
    /\ UnitsIdle

TrackEventCount(track) ==
    Len(track.controls) + Len(track.pitch_bends) + Len(track.pedals)
    + Len(track.lyrics)

RECURSIVE EventsFrom(_, _)
EventsFrom(s, t) ==
    IF t \notin ScoreTracks THEN 0
    ELSE TrackEventCount(s.tracks[t]) + EventsFrom(s, t + 1)

\* Timed events of the file other than notes.
EventCount(s) ==
    Len(s.tempos) + Len(s.time_signatures) + Len(s.key_signatures)
    + EventsFrom(s, 1)

\* symusic loads every list of a file in time order: an entity can follow
\* the ones already in its list if it is not earlier than the last of them.
Follows(times, time) ==
    IF times = <<>> THEN TRUE ELSE times[Len(times)] <= time

\* The file holds one more note.
ScoreAddNote ==
    /\ mode = "trim" /\ trim_runs = <<>>
    /\ count_notes(score) < MaxNotes
    /\ \E t \in ScoreTracks, time \in Ticks, duration \in Durations :
          /\ Follows([k \in DOMAIN score.tracks[t].notes |->
                         score.tracks[t].notes[k].time], time)
          /\ score' = [score EXCEPT !.tracks[t].notes =
                           Append(@, [time |-> time, duration |-> duration])]
    /\ UNCHANGED <<pipeline, units, trim_cfg, trim_runs, doc, extraction>>

\* The file holds one more timed event of another kind.
ScoreAddEvent ==
    /\ mode = "trim" /\ trim_runs = <<>>
    /\ EventCount(score) < MaxEvents
    /\ \E time \in Ticks :
          \/ \E t \in ScoreTracks, kind \in TrackEventKinds :
                /\ Follows(score.tracks[t][kind], time)
                /\ score' = [score EXCEPT !.tracks[t][kind] = Append(@, time)]
          \/ \E kind \in ScoreEventKinds :
                /\ Follows(score[kind], time)
                /\ score' = [score EXCEPT ![kind] = Append(@, time)]
    /\ UNCHANGED <<pipeline, units, trim_cfg, trim_runs, doc, extraction>>

\* Whether symusic.Score(path) succeeds: a file that is no MIDI file (it
\* holds no score) never loads, any other file always does.
Loads ==
    IF trim_runs # <<>> THEN {trim_runs[1].loads}
    ELSE IF score = EmptyScore THEN BOOLEAN ELSE {TRUE}

\* trim_file(path, path): the file is loaded, trimmed and dumped in place.
TrimRun ==
    /\ mode = "trim"
    /\ Len(trim_runs) < MaxTrims
    /\ \E loads \in Loads :
          LET r == trim_file(score, loads, trim_cfg)
          IN /\ trim_runs' = Append(trim_runs,
                    [before |-> score, loads |-> loads, stats |-> r.stats,
                     after |-> r.output])
             /\ score' = r.output
    /\ UNCHANGED <<pipeline, units, trim_cfg, doc, extraction>>

TrimNext == ScoreAddNote \/ ScoreAddEvent \/ TrimRun

TrimSpec == TrimInit /\ [][TrimNext]_vars

\* ---------------------------------------- a MidiExtractor driven on its own
ExtractInit ==
    /\ mode = "extract"
    /\ trim = FALSE
    /\ delete_after = FALSE
    /\ InitCommon
    /\ TrimmerIdle
    /\ ExtractorIdle
    /\ UnitsIdle

RECURSIVE MsgCount(_)
MsgCount(d) == IF d = <<>> THEN 0 ELSE Len(Head(d)) + MsgCount(Tail(d))

\* The file holds one more track.
DocAddTrack ==
    /\ mode = "extract" /\ extraction.pc = "document"
    /\ Len(doc) < MaxDocTracks
    /\ doc' = Append(doc, <<>>)
    /\ UNCHANGED <<pipeline, units, score, trim_cfg, trim_runs, extraction>>

\* The last track of the file holds one more message.
DocAddMsg ==
    /\ mode = "extract" /\ extraction.pc = "document"
    /\ doc # <<>>
    /\ MsgCount(doc) < MaxDocMsgs
    /\ \E msg \in DocMsgs : doc' = [doc EXCEPT ![Len(doc)] = Append(@, msg)]
    /\ UNCHANGED <<pipeline, units, score, trim_cfg, trim_runs, extraction>>

\* tracks, file_bpm, error = MidiExtractor.extract_tracks_from_obj(midi_file)
ExtractTracks ==
    /\ mode = "extract" /\ extraction.pc = "document"
    /\ LET r == extract_tracks_from_obj(doc)
       IN extraction' = [pc |-> "extracted", tracks |-> r.tracks,
                         tracks_none |-> r.tracks_none, file_bpm |-> r.file_bpm,
                         error |-> r.error, extraction_log |-> <<>>]
    /\ UNCHANGED <<pipeline, units, score, trim_cfg, trim_runs, doc>>

\* 'if error or not tracks: return extraction_log' of the worker; otherwise
\* it goes on to the track loop.
AfterExtract ==
    /\ mode = "extract" /\ extraction.pc = "extracted"
    /\ extraction' =
          [extraction EXCEPT !.pc =
              IF extraction.error # "" \/ extraction.tracks = <<>>
              THEN "returned" ELSE "track_loop"]
    /\ UNCHANGED <<pipeline, units, score, trim_cfg, trim_runs, doc>>

ExtractNext == DocAddTrack \/ DocAddMsg \/ ExtractTracks \/ AfterExtract

ExtractSpec == ExtractInit /\ [][ExtractNext]_vars

\* ------------------------------------------------- a standalone trim run
\* A file with one note, at the given tick.
OneNote(time) ==
    [EmptyScore EXCEPT !.tracks[1].notes = <<[time |-> time, duration |-> 240]>>]

\* What the input directory can hold: a file that is no MIDI file, a file
\* without notes, a file that starts with a note, a file with leading
\* silence.
DirFiles ==
    {[score |-> EmptyScore, loads |-> FALSE], [score |-> EmptyScore, loads |-> TRUE],
     [score |-> OneNote(0), loads |-> TRUE], [score |-> OneNote(960), loads |-> TRUE]}

\* TrimReport()
EmptyReport ==
    [total_files_scanned |-> 0, files_processed |-> 0, files_trimmed |-> 0,
     files_skipped |-> 0, files_failed |-> 0, total_ticks_trimmed_start |-> 0,
     total_ticks_trimmed_end |-> 0, file_statistics |-> <<>>]

NotWritten == [written |-> FALSE, score |-> EmptyScore]
Written(output) == [written |-> TRUE, score |-> output]

\* The command line of main() once parsed, the input directory, and the
\* process before main() has looked at anything.
TrimRunArgs ==
    [pc : {"directory"}, exists : BOOLEAN, dry_run : BOOLEAN, backup : BOOLEAN,
     output_dir : BOOLEAN, files : {<<>>}, outputs : {<<>>}, backups : {{}},
     i : {0}, report : {EmptyReport}, report_saved : {FALSE}, raised : {""},
     exit_status : {-1}]

TrimRunInit ==
    /\ mode = "trimrun"
    /\ trim = FALSE
    /\ delete_after = FALSE
    /\ InitCommon
    /\ score = EmptyScore
    /\ trim_cfg \in [min_trim_ticks : Thresholds, trim_trailing : BOOLEAN]
    /\ trim_runs = <<>>
    /\ ExtractorIdle
    /\ trim_report \in TrimRunArgs
    /\ TimingIdle /\ DetectorIdle /\ ParserIdle

\* The input directory, if there is one, holds one more MIDI file.
DirAddFile ==
    /\ mode = "trimrun" /\ trim_report.pc = "directory"
    /\ trim_report.exists
    /\ Len(trim_report.files) < MaxScanned
    /\ \E file \in DirFiles :
          trim_report' = [trim_report EXCEPT !.files = Append(@, file),
                                             !.outputs = Append(@, NotWritten)]
    /\ UNCHANGED <<pipeline, score, trim_cfg, trim_runs, doc, extraction,
                   timing, detection, metadata>>

\* 'if not args.input_dir.exists(): sys.exit(1)', or the TrimProcessor is
\* built and process_all gets to its loop: find_midi_files,
\* report.total_files_scanned = len(midi_files).
MainStart ==
    /\ mode = "trimrun" /\ trim_report.pc = "directory"
    /\ trim_report' =
          IF ~trim_report.exists
          THEN [trim_report EXCEPT !.pc = "exited", !.exit_status = 1]
          ELSE [trim_report EXCEPT
                   !.pc = "loop", !.i = 1,
                   !.report.total_files_scanned = Len(trim_report.files)]
    /\ UNCHANGED <<pipeline, score, trim_cfg, trim_runs, doc, extraction,
                   timing, detection, metadata>>

\* '# Update report' of process_all, for the TrimStatistics of one file.
CountFile(report, file_stats) ==
    LET seen == [report EXCEPT !.file_statistics = Append(@, file_stats),
                               !.files_processed = @ + 1]
    IN IF file_stats.success
       THEN IF file_stats.trimmed_start_ticks > 0 \/ file_stats.trimmed_end_ticks > 0
            THEN [seen EXCEPT
                    !.files_trimmed = @ + 1,
                    !.total_ticks_trimmed_start = @ + file_stats.trimmed_start_ticks,
                    !.total_ticks_trimmed_end = @ + file_stats.trimmed_end_ticks]
            ELSE [seen EXCEPT !.files_skipped = @ + 1]
       ELSE [seen EXCEPT !.files_failed = @ + 1]

\* One iteration of 'for i, input_path in enumerate(midi_files, 1)': the
\* backup copy, which raises out of main() if shutil.copy2 fails, then
\* trim_file on the file (without an output path in a dry run) and the update
\* of the report.
ProcessFile ==
    /\ mode = "trimrun" /\ trim_report.pc = "loop"
    /\ trim_report.i <= Len(trim_report.files)
    /\ LET i == trim_report.i
           file == trim_report.files[i]
           in_place == ~trim_report.output_dir
           backs_up == trim_report.backup /\ ~trim_report.dry_run /\ in_place
       IN \E copied \in BOOLEAN :
            IF backs_up /\ ~copied
            THEN trim_report' = [trim_report EXCEPT !.pc = "exited",
                                                    !.raised = "create_backup",
                                                    !.exit_status = 1]
            ELSE LET r == trim_file(file.score, file.loads, trim_cfg)
                     dumps == r.dumped /\ ~trim_report.dry_run
                 IN trim_report' =
                      [trim_report EXCEPT
                         !.i = i + 1,
                         !.backups = IF backs_up THEN @ \cup {i} ELSE @,
                         !.files[i].score =
                            IF dumps /\ in_place THEN r.output ELSE @,
                         !.outputs[i] =
                            IF dumps /\ ~in_place THEN Written(r.output) ELSE @,
                         !.report = CountFile(@, r.stats)]
    /\ UNCHANGED <<pipeline, score, trim_cfg, trim_runs, doc, extraction,
                   timing, detection, metadata>>

\* An exit status that does not look at the report.
ExitStatus_zero(report) == 0

\* sys.exit(0 if report.files_failed == 0 else 1)
ExitStatus(report) == IF report.files_failed = 0 THEN 0 ELSE 1

\* The loop is over: print_summary, then save_report unless this is a dry
\* run, which raises out of main() if the report cannot be written, then
\* sys.exit.
MainFinish ==
    /\ mode = "trimrun" /\ trim_report.pc = "loop"
    /\ trim_report.i > Len(trim_report.files)
    /\ \E saved \in BOOLEAN :
          trim_report' =
             IF ~trim_report.dry_run /\ ~saved
             THEN [trim_report EXCEPT !.pc = "exited", !.raised = "save_report",
                                      !.exit_status = 1]
             ELSE [trim_report EXCEPT
                      !.pc = "exited",
                      !.report_saved = ~trim_report.dry_run,
                      !.exit_status = ExitStatus(trim_report.report)]
    /\ UNCHANGED <<pipeline, score, trim_cfg, trim_runs, doc, extraction,
                   timing, detection, metadata>>

TrimRunNext == DirAddFile \/ MainStart \/ ProcessFile \/ MainFinish

TrimRunSpec == TrimRunInit /\ [][TrimRunNext]_vars

\* ------------------------------------------ get_duration_seconds on its own
\* msg.time of a message: its delta to the previous message of the track,
\* in ticks.
Deltas == {0, 480, 960}

\* midi_file.ticks_per_beat: the signed 16-bit division field of the file
\* header; negative for SMPTE time.
TicksPerBeat == {0, 480, -480}

TimedMsg(type, time, tempo) == [type |-> type, time |-> time, tempo |-> tempo]

\* The messages a track is made of here: notes and tempo changes to 240 and
\* to 60 beats per minute.
TimedMsgs ==
    {TimedMsg("note_on", t, 0) : t \in Deltas}
    \cup {TimedMsg("set_tempo", t, tempo) : t \in Deltas, tempo \in {250000, 1000000}}

\* 'for msg in track: ticks += msg.time'
RECURSIVE TrackTicks(_)
TrackTicks(track) ==
    IF track = <<>> THEN 0 ELSE Head(track).time + TrackTicks(Tail(track))

\* The ticks of all tracks added up.
RECURSIVE TotalTicks_summed(_)
TotalTicks_summed(tracks) ==
    IF tracks = <<>> THEN 0
    ELSE TrackTicks(Head(tracks)) + TotalTicks_summed(Tail(tracks))

\* 'for track in midi_file.tracks: ... total_ticks = max(total_ticks, ticks)'
\* from total_ticks = 0.
RECURSIVE TotalTicks(_)
TotalTicks(tracks) ==
    IF tracks = <<>> THEN 0
    ELSE Max(TrackTicks(tracks[Len(tracks)]),
             TotalTicks(SubSeq(tracks, 1, Len(tracks) - 1)))

\* round((total_ticks / ticks_per_beat) * (500000 / 1_000_000)): the second
\* factor is 0.5, so this is the quotient total_ticks / (2 * ticks_per_beat)
\* rounded, with the sign of the divisor moved to the dividend.
RoundSeconds(total_ticks, ticks_per_beat) ==
    IF ticks_per_beat > 0 THEN Round(total_ticks, 2 * ticks_per_beat)
    ELSE Round(0 - total_ticks, 0 - 2 * ticks_per_beat)

\* get_duration_seconds(midi_input): 0 when the file does not load (the
\* exception is swallowed), when ticks_per_beat is 0 and when no track has
\* ticks.
get_duration_seconds(loads, ticks_per_beat, tracks) ==
    IF ~loads THEN 0
    ELSE LET total_ticks == TotalTicks(tracks)
         IN IF ticks_per_beat # 0 /\ total_ticks > 0
            THEN Max(1, RoundSeconds(total_ticks, ticks_per_beat))
            ELSE 0

TimingInit ==
    /\ mode = "duration"
    /\ trim = FALSE
    /\ delete_after = FALSE
    /\ InitCommon
    /\ TrimmerIdle
    /\ ExtractorIdle
    /\ TrimRunIdle /\ DetectorIdle /\ ParserIdle
    /\ timing \in [pc : {"document"}, loads : BOOLEAN,
                   ticks_per_beat : TicksPerBeat, tracks : {<<>>}, seconds : {0}]

\* The file holds one more track.
TimedAddTrack ==
    /\ mode = "duration" /\ timing.pc = "document"
    /\ timing.loads
    /\ Len(timing.tracks) < MaxTimedTracks
    /\ timing' = [timing EXCEPT !.tracks = Append(@, <<>>)]
    /\ UNCHANGED <<pipeline, score, trim_cfg, trim_runs, doc, extraction,
                   trim_report, detection, metadata>>

\* The last track of the file holds one more message.
TimedAddMsg ==
    /\ mode = "duration" /\ timing.pc = "document"
    /\ timing.tracks # <<>>
    /\ MsgCount(timing.tracks) < MaxTimedMsgs
    /\ \E msg \in TimedMsgs :
          timing' = [timing EXCEPT !.tracks[Len(timing.tracks)] = Append(@, msg)]
    /\ UNCHANGED <<pipeline, score, trim_cfg, trim_runs, doc, extraction,
                   trim_report, detection, metadata>>

\* duration = MidiExtractor.get_duration_seconds(midi_input)
GetDuration ==
    /\ mode = "duration" /\ timing.pc = "document"
    /\ timing' = [timing EXCEPT
                     !.pc = "returned",
                     !.seconds = get_duration_seconds(timing.loads,
                                    timing.ticks_per_beat, timing.tracks)]
    /\ UNCHANGED <<pipeline, score, trim_cfg, trim_runs, doc, extraction,
                   trim_report, detection, metadata>>

TimingNext == TimedAddTrack \/ TimedAddMsg \/ GetDuration

TimingSpec == TimingInit /\ [][TimingNext]_vars

\* --------------------------------------- parse_filename_metadata on its own
\* A filename is the sequence of its characters.
DigitChars == <<"0", "1", "2", "3", "4", "5", "6", "7", "8", "9">>
UpperCase ==
    <<"A", "B", "C", "D", "E", "F", "G", "H", "I", "J", "K", "L", "M",
      "N", "O", "P", "Q", "R", "S", "T", "U", "V", "W", "X", "Y", "Z">>
LowerCase ==
    <<"a", "b", "c", "d", "e", "f", "g", "h", "i", "j", "k", "l", "m",
      "n", "o", "p", "q", "r", "s", "t", "u", "v", "w", "x", "y", "z">>

\* LATIN SMALL LETTER DOTLESS I, one character.
DotlessI == "U+0131"

IndexIn(chars, c) == CHOOSE k \in DOMAIN chars : chars[k] = c
IsIn(chars, c) == \E k \in DOMAIN chars : chars[k] = c

\* \d and \s of the patterns, \w of their \b.
IsDigit(c) == IsIn(DigitChars, c)
IsSpace(c) == c = " "
IsWordChar(c) ==
    IsDigit(c) \/ IsIn(UpperCase, c) \/ IsIn(LowerCase, c) \/ c = "_" \/ c = DotlessI

\* str.lower() and str.upper() of one character; the dotless i has no other
\* lower case and is not the lower case of an ASCII letter.
Lower(c) == IF IsIn(UpperCase, c) THEN LowerCase[IndexIn(UpperCase, c)] ELSE c
Upper(c) == IF IsIn(LowerCase, c) THEN UpperCase[IndexIn(LowerCase, c)] ELSE c
LowerAll(chars) == [k \in DOMAIN chars |-> Lower(chars[k])]

\* (?i): the character c of the name matches the letter p of a pattern (p in
\* lower case).  Python's re also lets i and I match the dotless i.
IgnoreCaseEq(c, p) == Lower(c) = p \/ (p = "i" /\ c = DotlessI)

\* The position after the word if the name holds it at pos (whatever the
\* case), 0 if it does not.
MatchWord(name, pos, word) ==
    IF pos + Len(word) - 1 > Len(name) THEN 0
    ELSE IF \A k \in 1..Len(word) : IgnoreCaseEq(name[pos + k - 1], word[k])
    THEN pos + Len(word) ELSE 0

\* \s*: the position after the white space that starts at pos.
RECURSIVE SkipSpaces(_, _)
SkipSpaces(name, pos) ==
    IF pos > Len(name) THEN pos
    ELSE IF IsSpace(name[pos]) THEN SkipSpaces(name, pos + 1) ELSE pos

\* filename.rsplit('.', 1)[0]: the name up to its last dot, all of it if it
\* has none.
RECURSIVE LastDot(_, _)
LastDot(name, pos) ==
    IF pos = 0 THEN 0
    ELSE IF name[pos] = "." THEN pos ELSE LastDot(name, pos - 1)

name_no_ext(filename) ==
    LET dot == LastDot(filename, Len(filename))
    IN IF dot = 0 THEN filename ELSE SubSeq(filename, 1, dot - 1)

\* A match of a pattern: what its groups hold; NoMatch for None.
NoMatch == [found |-> FALSE, groups |-> <<>>]
Match(groups) == [found |-> TRUE, groups |-> groups]

\* (\d{2,3})\s*BPM with its first group of n digits, tried at pos.
BpmAt(name, pos, n) ==
    IF pos + n - 1 > Len(name) THEN FALSE
    ELSE IF \A k \in 0..(n - 1) : IsDigit(name[pos + k])
    THEN MatchWord(name, SkipSpaces(name, pos + n), <<"b", "p", "m">>) # 0
    ELSE FALSE

\* BPM_REGEX tried at pos: three digits before two.
BpmMatchAt(name, pos) ==
    IF BpmAt(name, pos, 3) THEN Match(<<SubSeq(name, pos, pos + 2)>>)
    ELSE IF BpmAt(name, pos, 2) THEN Match(<<SubSeq(name, pos, pos + 1)>>)
    ELSE NoMatch

\* A search that goes through the name from its end.
RECURSIVE BpmSearchFrom_backwards(_, _)
BpmSearchFrom_backwards(name, pos) ==
    IF pos > Len(name) THEN NoMatch
    ELSE LET later == BpmSearchFrom_backwards(name, pos + 1)
         IN IF later.found THEN later ELSE BpmMatchAt(name, pos)

\* BPM_REGEX.search(name): the match at the first position that has one.
RECURSIVE BpmSearchFrom(_, _)
BpmSearchFrom(name, pos) ==
    IF pos > Len(name) THEN NoMatch
    ELSE IF BpmMatchAt(name, pos).found THEN BpmMatchAt(name, pos)
    ELSE BpmSearchFrom(name, pos + 1)

\* int(digits)
RECURSIVE ToInt(_)
ToInt(digits) ==
    IF digits = <<>> THEN 0
    ELSE 10 * ToInt(SubSeq(digits, 1, Len(digits) - 1))
         + (IndexIn(DigitChars, digits[Len(digits)]) - 1)

\* [A-G](?:#|b)? at pos: the positions after it the pattern can go on from,
\* in the order it tries them, with the accidental first.
TonicEnds(name, pos) ==
    IF pos > Len(name) THEN <<>>
    ELSE IF ~IsIn(<<"a", "b", "c", "d", "e", "f", "g">>, Lower(name[pos])) THEN <<>>
    ELSE IF pos + 1 > Len(name) THEN <<pos + 1>>
    ELSE IF name[pos + 1] = "#" \/ IgnoreCaseEq(name[pos + 1], "b")
    THEN <<pos + 2, pos + 1>>
    ELSE <<pos + 1>>

\* \s*[- ]?\s* from pos: where the mode has to start.  No mode starts with
\* white space or a dash, so the only way through is all the white space, a
\* dash if there is one, and all the white space again.
ModeStart(name, pos) ==
    LET dash == SkipSpaces(name, pos)
    IN IF dash > Len(name) THEN dash
       ELSE IF name[dash] = "-" THEN SkipSpaces(name, dash + 1) ELSE dash

\* (maj(?:or)?|dur) at pos: the position after it, 0 without a match.
MajorEnd(name, pos) ==
    IF MatchWord(name, pos, <<"m", "a", "j">>) # 0
    THEN IF MatchWord(name, pos + 3, <<"o", "r">>) # 0 THEN pos + 5 ELSE pos + 3
    ELSE MatchWord(name, pos, <<"d", "u", "r">>)

\* (min(?:or)?|m) at pos.
MinorEnd(name, pos) ==
    IF MatchWord(name, pos, <<"m", "i", "n">>) # 0
    THEN IF MatchWord(name, pos + 3, <<"o", "r">>) # 0 THEN pos + 5 ELSE pos + 3
    ELSE MatchWord(name, pos, <<"m">>)

\* \b at pos, after a word character.
WordEndsAt(name, pos) ==
    IF pos > Len(name) THEN TRUE ELSE ~IsWordChar(name[pos])

\* (maj|min|m)\b at pos.
CompactEnd(name, pos) ==
    LET maj == MatchWord(name, pos, <<"m", "a", "j">>)
        min == MatchWord(name, pos, <<"m", "i", "n">>)
        m == MatchWord(name, pos, <<"m">>)
    IN IF maj # 0 /\ WordEndsAt(name, maj) THEN maj
       ELSE IF min # 0 /\ WordEndsAt(name, min) THEN min
       ELSE IF m # 0 /\ WordEndsAt(name, m) THEN m
       ELSE 0

\* The three patterns of KEY_REGEXES from the end of the tonic on: where the
\* mode starts and ends.
KeyModeSpan(rx, name, tonic_end) ==
    LET start == IF rx = 3 THEN tonic_end ELSE ModeStart(name, tonic_end)
        stop == IF rx = 1 THEN MajorEnd(name, start)
                ELSE IF rx = 2 THEN MinorEnd(name, start)
                ELSE CompactEnd(name, start)
    IN [start |-> start, stop |-> stop]

\* KEY_REGEXES[rx] tried at pos.
KeyMatchAt(rx, name, pos) ==
    LET ends == TonicEnds(name, pos)
        fits == {k \in DOMAIN ends : KeyModeSpan(rx, name, ends[k]).stop # 0}
    IN IF fits = {} THEN NoMatch
       ELSE LET k == CHOOSE k \in fits : \A j \in fits : k <= j
                span == KeyModeSpan(rx, name, ends[k])
            IN Match(<<SubSeq(name, pos, ends[k] - 1),
                       SubSeq(name, span.start, span.stop - 1)>>)

\* KEY_REGEXES[rx].search(name)
RECURSIVE KeySearchFrom(_, _, _)
KeySearchFrom(rx, name, pos) ==
    IF pos > Len(name) THEN NoMatch
    ELSE IF KeyMatchAt(rx, name, pos).found THEN KeyMatchAt(rx, name, pos)
    ELSE KeySearchFrom(rx, name, pos + 1)

\* 'for rx in KEY_REGEXES: m = rx.search(name_no_ext); if m: ... break', from
\* pattern rx on.
RECURSIVE FirstKeyMatch(_, _)
FirstKeyMatch(rx, name) ==
    IF rx > 3 THEN NoMatch
    ELSE IF KeySearchFrom(rx, name, 1).found THEN KeySearchFrom(rx, name, 1)
    ELSE FirstKeyMatch(rx + 1, name)

\* scale: None, or a string.
NoScale == [none |-> TRUE, text |-> <<>>]
Scale(text) == [none |-> FALSE, text |-> text]

\* The tonic of lines 48-54: the letter in upper case, then '#' for '#' and
\* 'b' for 'b' and 'B'.
Tonic(tonic_raw) ==
    <<Upper(tonic_raw[1])>>
    \o (IF Len(tonic_raw) > 1
        THEN IF tonic_raw[2] = "#" THEN <<"#">>
             ELSE IF tonic_raw[2] \in {"b", "B"} THEN <<"b">> ELSE <<>>
        ELSE <<>>)

StartsWith(chars, word) ==
    IF Len(chars) < Len(word) THEN FALSE ELSE SubSeq(chars, 1, Len(word)) = word

\* Lines 55-62: the scale string of a match.
ScaleOf(m) ==
    LET tonic == Tonic(m.groups[1])
        mode_raw == LowerAll(m.groups[2])
    IN IF StartsWith(mode_raw, <<"m", "a", "j">>) \/ mode_raw = <<"d", "u", "r">>
       THEN Scale(tonic \o <<" ", "m", "a", "j", "o", "r">>)
       ELSE IF StartsWith(mode_raw, <<"m", "i", "n">>) \/ mode_raw = <<"m">>
       THEN Scale(tonic \o <<" ", "m", "i", "n", "o", "r">>)
       ELSE Scale(tonic)

\* parse_filename_metadata(filename): (bpm, scale).
parse_filename_metadata(filename) ==
    LET name == name_no_ext(filename)
        bpm_match == BpmSearchFrom(name, 1)
        m == FirstKeyMatch(1, name)
    IN [bpm |-> IF bpm_match.found THEN Bpm(ToInt(bpm_match.groups[1])) ELSE NoBpm,
        scale |-> IF m.found THEN ScaleOf(m) ELSE NoScale]

\* The filename of the module's example, and one in lower case with the
\* short form of a minor key.
CymaticsName ==
    <<"C", "y", "m", "a", "t", "i", "c", "s", " ", "-", " ", "I", "n", "f", "i",
      "n", "i", "t", "e", " ", "-", " ", "1", "9", "4", " ", "B", "P", "M",
      " ", "D", " ", "M", "i", "n", ".", "m", "i", "d">>
TrackName ==
    <<"1", "4", "0", "b", "p", "m", " ", "F", "#", "m", " ", "T", "r", "a", "c",
      "k", ".", "m", "i", "d">>

\* What a filename is put together from here.
NameParts ==
    {<<"1", "9", "4">>, <<"4", "0">>, <<"7">>, <<" ">>, <<"-">>, <<".">>,
     <<"B", "p", "m">>, <<"D">>, <<"#">>, <<"b">>, <<"m">>,
     <<"M", "i", "n">>, <<"M", "a", "j">>, <<"m", DotlessI, "n">>}

ParserInit ==
    /\ mode = "parse"
    /\ trim = FALSE
    /\ delete_after = FALSE
    /\ InitCommon
    /\ TrimmerIdle
    /\ ExtractorIdle
    /\ TrimRunIdle /\ TimingIdle /\ DetectorIdle
    /\ \E filename \in {<<>>, CymaticsName, TrackName} :
          metadata = [pc |-> "name", filename |-> filename,
                      parts |-> IF filename = <<>> THEN 0 ELSE MaxNameParts,
                      bpm |-> NoBpm, scale |-> NoScale]

\* The filename is one part longer.
NameAddPart ==
    /\ mode = "parse" /\ metadata.pc = "name"
    /\ metadata.parts < MaxNameParts
    /\ \E part \in NameParts :
          metadata' = [metadata EXCEPT !.filename = @ \o part, !.parts = @ + 1]
    /\ UNCHANGED <<pipeline, score, trim_cfg, trim_runs, doc, extraction,
                   trim_report, timing, detection>>

\* bpm, scale = parse_filename_metadata(filename)
ParseName ==
    /\ mode = "parse" /\ metadata.pc = "name"
    /\ LET r == parse_filename_metadata(metadata.filename)
       IN metadata' = [metadata EXCEPT !.pc = "parsed", !.bpm = r.bpm,
                                       !.scale = r.scale]
    /\ UNCHANGED <<pipeline, score, trim_cfg, trim_runs, doc, extraction,
                   trim_report, timing, detection>>

ParserNext == NameAddPart \/ ParseName

ParserSpec == ParserInit /\ [][ParserNext]_vars

\* -------------------------------------------- a ScaleDetector on its own
\* The Krumhansl-Kessler profiles, in hundredths.
MAJOR_PROFILE == <<635, 223, 348, 233, 438, 409, 252, 519, 239, 366, 229, 288>>
MINOR_PROFILE == <<633, 268, 352, 538, 260, 353, 254, 475, 398, 269, 334, 317>>

NOTE_NAMES ==
    <<<<"C">>, <<"C", "#">>, <<"D">>, <<"E", "b">>, <<"E">>, <<"F">>,
      <<"F", "#">>, <<"G">>, <<"A", "b">>, <<"A">>, <<"B", "b">>, <<"B">>>>

PitchClasses == 0..11
MajorName == <<"M", "a", "j", "o", "r">>
MinorName == <<"M", "i", "n", "o", "r">>
UnknownName == <<"u", "n", "k", "n", "o", "w", "n">>

\* Natural numbers beyond the machine word, as their digits to the base
\* 10000, the lowest first; no digits for 0.
Base == 10000

RECURSIVE BigOf(_)
BigOf(n) == IF n = 0 THEN <<>> ELSE <<n % Base>> \o BigOf(n \div Base)

RECURSIVE BigAdd(_, _, _)
BigAdd(a, b, carry) ==
    IF a = <<>> /\ b = <<>> THEN BigOf(carry)
    ELSE LET v == (IF a = <<>> THEN 0 ELSE Head(a))
                  + (IF b = <<>> THEN 0 ELSE Head(b)) + carry
         IN <<v % Base>> \o BigAdd(IF a = <<>> THEN a ELSE Tail(a),
                                   IF b = <<>> THEN b ELSE Tail(b), v \div Base)

RECURSIVE BigTimesDigit(_, _, _)
BigTimesDigit(a, d, carry) ==
    IF a = <<>> THEN BigOf(carry)
    ELSE LET v == Head(a) * d + carry
         IN <<v % Base>> \o BigTimesDigit(Tail(a), d, v \div Base)

RECURSIVE BigTrim(_)
BigTrim(a) ==
    IF a = <<>> THEN a
    ELSE IF a[Len(a)] = 0 THEN BigTrim(SubSeq(a, 1, Len(a) - 1)) ELSE a

RECURSIVE BigTimes(_, _)
BigTimes(a, b) ==
    IF a = <<>> \/ b = <<>> THEN <<>>
    ELSE BigTrim(BigAdd(BigTimesDigit(a, Head(b), 0),
                        <<0>> \o BigTimes(a, Tail(b)), 0))

RECURSIVE BigLess(_, _)
BigLess(a, b) ==
    IF Len(a) # Len(b) THEN Len(a) < Len(b)
    ELSE IF a = <<>> THEN FALSE
    ELSE IF a[Len(a)] # b[Len(b)] THEN a[Len(a)] < b[Len(b)]
    ELSE BigLess(SubSeq(a, 1, Len(a) - 1), SubSeq(b, 1, Len(b) - 1))

Abs(n) == IF n < 0 THEN 0 - n ELSE n
Sign(n) == IF n < 0 THEN -1 ELSE IF n = 0 THEN 0 ELSE 1

\* A correlation coefficient, num / sqrt(den2) with den2 > 0, and the
\* rational n / q among them.
Rational(n, q) == [num |-> n, den2 |-> BigOf(q * q)]
SquareOf(n) == BigTimes(BigOf(Abs(n)), BigOf(Abs(n)))

\* a > b for two such numbers.
Greater(a, b) ==
    IF Sign(a.num) # Sign(b.num) THEN Sign(a.num) > Sign(b.num)
    ELSE IF a.num = 0 THEN FALSE
    ELSE LET left == BigTimes(SquareOf(a.num), b.den2)
             right == BigTimes(SquareOf(b.num), a.den2)
         IN IF a.num > 0 THEN BigLess(right, left) ELSE BigLess(left, right)

\* The sum of f over the elements of a finite set of integers.
RECURSIVE SumOver(_, _)
SumOver(S, f) ==
    IF S = {} THEN 0
    ELSE LET e == CHOOSE e \in S : TRUE
         IN f[e] + SumOver(S \ {e}, f)

\* _pearson_correlation(x, y) of a histogram with a profile; both have 12
\* entries.  With n = 12, N = n * sum(x*y) - sum(x) * sum(y), Dx = n *
\* sum(x*x) - sum(x)^2 and Dy alike, numerator is N / n, sum_sq_x is Dx / n,
\* sum_sq_y is Dy / n and the quotient numerator / denominator is N /
\* sqrt(Dx * Dy); the denominator is 0 exactly when Dx or Dy is.  The scale
\* of the profile cancels.
pearson_correlation(x, y) ==
    LET n == 12
        sum_x == SumOver(PitchClasses, x)
        sum_y == SumOver(PitchClasses, [i \in PitchClasses |-> y[i + 1]])
        N == n * SumOver(PitchClasses, [i \in PitchClasses |-> x[i] * y[i + 1]])
             - sum_x * sum_y
        Dx == n * SumOver(PitchClasses, [i \in PitchClasses |-> x[i] * x[i]])
              - sum_x * sum_x
        Dy == n * SumOver(PitchClasses, [i \in PitchClasses |-> y[i + 1] * y[i + 1]])
              - sum_y * sum_y
    IN IF Dx = 0 \/ Dy = 0 THEN Rational(0, 1)
       ELSE [num |-> N, den2 |-> BigTimes(BigOf(Dx), BigOf(Dy))]

\* A rotation to the other side.
Rotated_backwards(histogram, root) ==
    [i \in PitchClasses |-> histogram[(i + 12 - root) % 12]]

\* histogram[root:] + histogram[:root]
Rotated(histogram, root) == [i \in PitchClasses |-> histogram[(root + i) % 12]]

\* A comparison that lets a later key of the same correlation win.
Better_or_equal(correlation, best_correlation) ==
    ~Greater(best_correlation, correlation)

\* 'if correlation > best_correlation:'
Better(correlation, best_correlation) == Greater(correlation, best_correlation)

\* The two tests of each root, in their order.
ModeProfiles ==
    <<[profile |-> MAJOR_PROFILE, mode_name |-> MajorName],
      [profile |-> MINOR_PROFILE, mode_name |-> MinorName]>>

\* The loop of _find_best_key from a root on, with the tests of that root
\* still to make and what is best so far.
RECURSIVE RootLoop(_, _, _, _)
RootLoop(best, histogram, root, tests) ==
    IF root \notin PitchClasses THEN best
    ELSE IF tests = <<>> THEN RootLoop(best, histogram, root + 1, ModeProfiles)
    ELSE LET correlation ==
                 pearson_correlation(Rotated(histogram, root), Head(tests).profile)
         IN IF Better(correlation, best.best_correlation)
            THEN RootLoop([best_correlation |-> correlation,
                           best_key |-> NOTE_NAMES[root + 1],
                           best_mode |-> Head(tests).mode_name],
                          histogram, root, Tail(tests))
            ELSE RootLoop(best, histogram, root, Tail(tests))

\* A confidence: the number (a + x) / c for integers a, c > 0 and a
\* correlation x.
Fixed(p, q) == [a |-> p, x |-> Rational(0, 1), c |-> q]
HalfOfOnePlus(correlation) == [a |-> 1, x |-> correlation, c |-> 2]

\* v >= p / q and v <= p / q for a confidence v and q > 0.
AtLeast(v, p, q) == ~Greater(Rational(p * v.c - v.a * q, q), v.x)
AtMost(v, p, q) == ~Greater(v.x, Rational(p * v.c - v.a * q, q))

\* max(0.0, min(1.0, v))
Clamped(v) ==
    IF ~AtMost(v, 1, 1) THEN Fixed(1, 1)
    ELSE IF ~AtLeast(v, 0, 1) THEN Fixed(0, 1)
    ELSE v

\* _find_best_key(histogram): (scale_name, confidence)
find_best_key(histogram) ==
    LET best == RootLoop([best_correlation |-> Rational(-1, 1),
                          best_key |-> UnknownName, best_mode |-> MajorName],
                         histogram, 0, ModeProfiles)
    IN [scale_name |-> best.best_key \o <<" ">> \o best.best_mode,
        confidence |-> Clamped(HalfOfOnePlus(best.best_correlation))]

\* The messages of a file, in whatever track and order: how many of each it
\* holds.
ScaleMsg(type, note, velocity) == [type |-> type, note |-> note, velocity |-> velocity]
ScaleMsgs ==
    {ScaleMsg("note_on", note, 64) : note \in PitchClasses \cup {60}}
    \cup {ScaleMsg("note_on", 0, 0), ScaleMsg("note_off", 0, 64)}

\* A count that takes every note_on, also the silent ones.
Counts_silent_too(msg) == msg.type = "note_on"

\* 'if msg.type == 'note_on' and msg.velocity > 0:'
Counts(msg) == msg.type = "note_on" /\ msg.velocity > 0

\* The loop over the messages: 'histogram[pitch_class] += 1' for each one
\* that counts.
RECURSIVE CountIn(_, _, _)
CountIn(histogram, midi_file, msgs) ==
    IF msgs = {} THEN histogram
    ELSE LET msg == CHOOSE msg \in msgs : TRUE
         IN CountIn(IF Counts(msg)
                    THEN [histogram EXCEPT ![msg.note % 12] = @ + midi_file[msg]]
                    ELSE histogram,
                    midi_file, msgs \ {msg})

\* _build_pitch_class_histogram(midi_file), from 'histogram = [0] * 12'
build_pitch_class_histogram(midi_file) ==
    CountIn([pitch_class \in PitchClasses |-> 0], midi_file, ScaleMsgs)

\* detect_scale(midi_input, filename_hint): the hint if it is a non-empty
\* string; ("unknown", 0.0) for a file that does not load, whose exception
\* is swallowed, and for a file without a counted note.
detect_scale(loads, midi_file, filename_hint) ==
    IF ~filename_hint.none /\ filename_hint.text # <<>>
    THEN [scale_name |-> filename_hint.text, confidence |-> Fixed(95, 100)]
    ELSE IF ~loads THEN [scale_name |-> UnknownName, confidence |-> Fixed(0, 1)]
    ELSE LET pitch_class_histogram == build_pitch_class_histogram(midi_file)
         IN IF SumOver(PitchClasses, pitch_class_histogram) = 0
            THEN [scale_name |-> UnknownName, confidence |-> Fixed(0, 1)]
            ELSE find_best_key(pitch_class_histogram)

\* Files to start from: one without messages, one with every pitch class
\* once, and for each root and profile one whose notes are spread as the
\* profile transposed to that root.
SilentFile == [msg \in ScaleMsgs |-> 0]
EvenFile ==
    [msg \in ScaleMsgs |-> IF Counts(msg) /\ msg.note \in PitchClasses THEN 1 ELSE 0]
ProfileFile(root, profile) ==
    [msg \in ScaleMsgs |->
        IF Counts(msg) /\ msg.note \in PitchClasses
        THEN profile[((msg.note + 12 - root) % 12) + 1] ELSE 0]
ProfileFiles ==
    {ProfileFile(root, profile) :
        root \in PitchClasses, profile \in {MAJOR_PROFILE, MINOR_PROFILE}}

\* filename_hint: None, the empty string, "D minor".
Hints == {NoScale, Scale(<<>>), Scale(<<"D", " ", "m", "i", "n", "o", "r">>)}

DetectorInit ==
    /\ mode = "detect"
    /\ trim = FALSE
    /\ delete_after = FALSE
    /\ InitCommon
    /\ TrimmerIdle
    /\ ExtractorIdle
    /\ TrimRunIdle /\ TimingIdle /\ ParserIdle
    /\ \E midi_file \in {SilentFile, EvenFile} \cup ProfileFiles,
          hint \in Hints, loads \in BOOLEAN :
          detection = [pc |-> "file", loads |-> loads, midi_file |-> midi_file,
                       filename_hint |-> hint, added |-> 0,
                       scale_name |-> <<>>, confidence |-> Fixed(0, 1)]

\* The file holds one more message.
FileAddMsg ==
    /\ mode = "detect" /\ detection.pc = "file"
    /\ detection.loads
    /\ detection.added < MaxAddedMsgs
    /\ \E msg \in ScaleMsgs :
          detection' = [detection EXCEPT !.midi_file[msg] = @ + 1, !.added = @ + 1]
    /\ UNCHANGED <<pipeline, score, trim_cfg, trim_runs, doc, extraction,
                   trim_report, timing, metadata>>

\* scale_name, confidence = ScaleDetector.detect_scale(midi_input, hint)
DetectScale ==
    /\ mode = "detect" /\ detection.pc = "file"
    /\ LET r == detect_scale(detection.loads, detection.midi_file,
                             detection.filename_hint)
       IN detection' = [detection EXCEPT !.pc = "detected",
                                         !.scale_name = r.scale_name,
                                         !.confidence = r.confidence]
    /\ UNCHANGED <<pipeline, score, trim_cfg, trim_runs, doc, extraction,
                   trim_report, timing, metadata>>

DetectorNext == FileAddMsg \/ DetectScale

DetectorSpec == DetectorInit /\ [][DetectorNext]_vars

\* ================================================================== claims
SetMin(S) == CHOOSE x \in S : \A y \in S : x <= y
Range(seq) == {seq[k] : k \in 1..Len(seq)}
IsIota(seq, m) == Len(seq) = m /\ \A k \in 1..m : seq[k] = k
Finished(f) == fut[f] \in {"finished", "finished_late"}

\* ---------------------------------------------------------------------- C1
EarlierSame(k) == {j \in 1..(k - 1) : calls[j].content = calls[k].content}

\* C1: in any sequence of register_file calls on readable files, a call is
\* reported a duplicate exactly when an earlier call registered the same
\* content, its canonical reference is then the path of the first such call
\* (None otherwise), and no entry of the digest index is ever overwritten.
C1_FirstRegistrationIsCanonical ==
    \A k \in 1..Len(calls) :
        calls[k].content # Absent =>
            /\ calls[k].is_dup <=> EarlierSame(k) # {}
            /\ EarlierSame(k) # {} =>
                  calls[k].canonical = calls[SetMin(EarlierSame(k))].path
            /\ EarlierSame(k) = {} => calls[k].canonical = None
            /\ \A h \in DOMAIN calls[k].hashes_before :
                  /\ h \in DOMAIN file_hashes
                  /\ file_hashes[h] = calls[k].hashes_before[h]

\* Three registrations of one content under three paths: the third is a
\* duplicate of the first, not of the second.
C1_Witness ==
    /\ Len(calls) = 3
    /\ calls[1].content # Absent
    /\ calls[2].content = calls[1].content
    /\ calls[3].content = calls[1].content
    /\ Cardinality({calls[1].path, calls[2].path, calls[3].path}) = 3
    /\ calls[3].is_dup
    /\ calls[3].canonical = calls[1].path

\* ---------------------------------------------------------------------- C2
\* C2: after the dedup pass, every content registered in the pass is on disk
\* in exactly one file, the canonical one (the pass never removes it).
C2_OneCanonicalPerContent ==
    phase \in {"delete", "done"} =>
        \A h \in DOMAIN file_hashes :
            {p \in Paths : ComputeFileHash(disk[p]) = h} = {file_hashes[h]}

\* ---------------------------------------------------------------------- C3
\* The paths at which worker g has saved a clip that it has logged or is
\* still producing.
Held(g) ==
    {e.output_path : e \in {x \in Range(worker[g].log) :
                                x.track_index \in worker[g].saved}}
        \cup (IF worker[g].path # None /\ worker[g].i \in worker[g].saved
              THEN {worker[g].path} ELSE {})

\* C3: no step of a worker changes an output file or an intermediate at a
\* path whose clip another worker has saved or is producing.
C3_WorkersShareNoPath ==
    [][\A f \in Files : \A g \in Files \ {f} : \A p \in Paths :
          (fut[f] = "running" /\ worker'[f] # worker[f]
             /\ (disk'[p] # disk[p] \/ tmp'[p] # tmp[p]))
          => p \notin Held(g)]_vars

\* ---------------------------------------------------------------------- C4
\* C4: the dedup pass consumes the results sorted by source file (tracks of a
\* file in track order), whatever the order the workers completed in.
C4_DedupOrderSorted ==
    phase # "extract" =>
        \A i \in 1..Len(all_results) : \A j \in 1..Len(all_results) :
            i < j =>
                \/ all_results[i].source_file < all_results[j].source_file
                \/ /\ all_results[i].source_file = all_results[j].source_file
                   /\ all_results[i].track_index < all_results[j].track_index

\* ---------------------------------------------------------------------- C5
\* C5: a task that did not complete within the timeout is counted as a
\* timeout with a message, and none of its log entries is merged.
C5_LateTaskAbandoned ==
    [][\A f \in Files :
          (fut[f] = "finished_late" /\ fut'[f] = "collected") =>
              /\ stats'.timeouts = stats.timeouts + 1
              /\ stats'.errors = Append(stats.errors, <<"timeout", f>>)
              /\ all_results' = all_results]_vars

\* ---------------------------------------------------------------------- C6
\* Holds initially; C6 states that every step keeps it.
C6_Inv ==
    (phase # "extract" \/ DOMAIN file_hashes # {} \/ duplicates_found > 0
        \/ dedup_i > 1)
      => \A f \in Files : fut[f] = "collected"

C6_Step ==
    /\ (\E f \in Files : worker'[f] # worker[f])
          => UNCHANGED <<file_hashes, duplicates_found, dedup_i>>
    /\ (file_hashes' # file_hashes \/ duplicates_found' # duplicates_found)
          => /\ phase = "dedup" /\ phase' = "dedup"
             /\ dedup_i' = dedup_i + 1
             /\ UNCHANGED <<worker, fut>>

\* C6: the dedup index is touched only once every future has been handled,
\* one entry at a time by the coordinator's loop, and never by a step of a
\* worker.
C6_DedupAfterExtraction == [][C6_Inv' /\ C6_Step]_vars

\* The pass has registered an entry, with every file handled before.
C6_Witness ==
    /\ phase = "dedup"
    /\ dedup_i > 1
    /\ DOMAIN file_hashes # {}
    /\ Len(files_to_delete) = NumFiles
    /\ stats.processed = NumFiles

\* ---------------------------------------------------------------------- C7
\* C7: when trim_file fails for lack of notes, the statistics say so and the
\* clip is still on disk when the batch step for the track is over.
C7_NoNotesClipKept ==
    [][\A f \in Files :
          (worker[f].pc = "remove" /\ worker[f].trim_stats.error = "no_notes"
             /\ worker'[f].pc # "remove")
          => /\ ~worker[f].trim_stats.success
             /\ \/ disk'[worker[f].path] # Absent
                \/ tmp'[worker[f].path] # Absent]_vars

\* ---------------------------------------------------------------------- C8
\* C8: the log a worker returns has exactly one record for each track whose
\* save succeeded and none for a track whose save failed.
C8_LogMatchesSavedClips ==
    \A f \in Files :
        Finished(f) =>
            /\ {e.track_index : e \in Range(worker[f].log)} = worker[f].saved
            /\ Len(worker[f].log) = Cardinality(worker[f].saved)

\* ---------------------------------------------------------------------- C9
DeleteFailures == {e \in Range(stats.errors) : e[1] = "delete_failed"}

\* Holds initially; C9 states that every step keeps it.
C9_Inv ==
    /\ (src # Files \/ delete_i > 1 \/ DeleteFailures # {})
          => /\ phase \in {"delete", "done"}
             /\ delete_after
             /\ \A f \in Files : fut[f] = "collected"
             /\ dedup_i > Len(all_results)
    /\ (phase = "done" /\ delete_after)
          => \A f \in Range(files_to_delete) :
                f \notin src \/ <<"delete_failed", f>> \in DeleteFailures

C9_Step ==
    phase = "delete" =>
        /\ UNCHANGED <<disk, tmp, all_results, file_hashes, files_to_delete>>
        /\ stats'.processed = stats.processed
        /\ stats'.skipped_corrupted = stats.skipped_corrupted
        /\ stats'.extracted_tracks = stats.extracted_tracks
        /\ stats'.duplicates_skipped = stats.duplicates_skipped
        /\ stats'.timeouts = stats.timeouts
        /\ \/ stats'.errors = stats.errors
           \/ /\ stats'.errors =
                    Append(stats.errors, <<"delete_failed", files_to_delete[delete_i]>>)
              /\ delete_i' = delete_i + 1
              /\ phase' = "delete"

\* C9: sources are deleted only after extraction and the dedup pass are over;
\* a failed deletion adds an error message and the loop goes on with the next
\* file, so that at the end every listed source is deleted or reported; the
\* deletion phase changes no output file, log entry or counter.
C9_DeletionDeferredBestEffort == [][C9_Inv' /\ C9_Step]_vars

\* The first deletion failed, a later one succeeded, and the run finished.
C9_Witness ==
    /\ phase = "done"
    /\ delete_after
    /\ Len(files_to_delete) >= 2
    /\ files_to_delete[1] \in src
    /\ <<"delete_failed", files_to_delete[1]>> \in DeleteFailures
    /\ files_to_delete[2] \notin src
    /\ Len(all_results) > 0

\* --------------------------------------------------------------------- C10
\* C10: whatever fails for a track, save_track is called for every track of
\* the file, in track order, and the function returns its log.
C10_SiblingTracksAttempted ==
    \A f \in Files :
        /\ fut[f] = "running" =>
              IsIota(worker[f].attempted,
                     IF worker[f].pc = "save" THEN worker[f].i - 1 ELSE worker[f].i)
        /\ Finished(f) => IsIota(worker[f].attempted, worker[f].n)

\* With trimming on, the save of track 1 failed and track 2 was saved, trimmed
\* and logged.
C10_Witness ==
    \E f \in Files :
        /\ trim
        /\ Finished(f)
        /\ worker[f].n = 2
        /\ worker[f].attempted = <<1, 2>>
        /\ worker[f].saved = {2}
        /\ {e.track_index : e \in Range(worker[f].log)} = {2}

\* --------------------------------------------------------------------- C11
LastCall == calls[Len(calls)]

\* C11: a register_file call on a candidate that cannot be read returns
\* (False, None) and leaves file_hashes, duplicates_found and bytes_saved as
\* they were.  (register_file has no raising path for such a candidate:
\* compute_file_hash returns None for a missing file and for a read error.)
C11_UnreadableCandidateIgnored ==
    [][(Len(calls') = Len(calls) + 1 /\ LastCall'.content = Absent)
          => /\ LastCall'.is_dup = FALSE
             /\ LastCall'.canonical = None
             /\ UNCHANGED <<file_hashes, duplicates_found, bytes_saved>>]_vars

\* An unreadable candidate is registered after a content and its duplicate:
\* the index and both counters are non-trivial when the call is made.
C11_Witness ==
    /\ Len(calls) = 3
    /\ calls[1].content # Absent
    /\ calls[2].content = calls[1].content
    /\ calls[3].content = Absent
    /\ ~calls[3].is_dup
    /\ DOMAIN file_hashes # {}
    /\ duplicates_found = 1
    /\ bytes_saved > 0

\* ---------------------------------------------------------------- C12..C15
SetMax(S) == CHOOSE x \in S : \A y \in S : x >= y

NoteStarts(s) ==
    UNION {{s.tracks[t].notes[k].time : k \in DOMAIN s.tracks[t].notes} :
            t \in ScoreTracks}

NoteStops(s) ==
    UNION {{s.tracks[t].notes[k].time + s.tracks[t].notes[k].duration :
                k \in DOMAIN s.tracks[t].notes} : t \in ScoreTracks}

\* Every list of timed entities of a score: <<track, kind>>, track 0 for the
\* lists of the score itself.
ListIds ==
    (ScoreTracks \X ({"notes"} \cup TrackEventKinds)) \cup ({0} \X ScoreEventKinds)

TimesOf(s, id) ==
    IF id[1] = 0 THEN s[id[2]]
    ELSE IF id[2] = "notes"
    THEN [k \in DOMAIN s.tracks[id[1]].notes |-> s.tracks[id[1]].notes[k].time]
    ELSE s.tracks[id[1]][id[2]]

\* The latest tick at which anything of the score ends.
LatestEnd(s) ==
    SetMax({0} \cup NoteStops(s)
           \cup UNION {Range(TimesOf(s, id)) : id \in ListIds})

\* Runs of trim_file that loaded a clip with at least one note.
NoteRuns == {k \in 1..Len(trim_runs) :
                trim_runs[k].loads /\ NoteStarts(trim_runs[k].before) # {}}

\* C12: trimming is idempotent: a trim_file applied to the result of a
\* successful trim_file with the same threshold reports trimmed_start_ticks
\* = 0 and leaves every event of the clip where it was.
C12_TrimIdempotent ==
    \A k \in 1..(Len(trim_runs) - 1) :
        (trim_runs[k].stats.success /\ trim_runs[k + 1].loads) =>
            /\ trim_runs[k + 1].before = trim_runs[k].after
            /\ trim_runs[k + 1].stats.success
            /\ trim_runs[k + 1].stats.trimmed_start_ticks = 0
            /\ trim_runs[k + 1].after = trim_runs[k + 1].before

\* A first trim that moved the clip by 960 ticks, followed by a second one.
C12_Witness ==
    /\ Len(trim_runs) = 2
    /\ trim_runs[1].stats.success
    /\ trim_runs[1].stats.trimmed_start_ticks = 960
    /\ trim_runs[1].after # trim_runs[1].before
    /\ EventCount(trim_runs[1].before) > 0
    /\ trim_runs[2].loads
    /\ trim_runs[2].stats.trimmed_start_ticks = 0

\* C13: for a clip with notes, trim_start is the smallest note start over
\* all tracks when that is at least min_trim_ticks, and 0 otherwise; in the
\* first case the first note ends up at tick 0, in the second nothing moves.
C13_TrimStartIsFirstNote ==
    \A k \in NoteRuns :
        LET run == trim_runs[k]
            first == SetMin(NoteStarts(run.before))
        IN /\ run.stats.success
           /\ run.stats.first_note_time = first
           /\ first >= trim_cfg.min_trim_ticks =>
                 /\ run.stats.trimmed_start_ticks = first
                 /\ SetMin(NoteStarts(run.after)) = 0
           /\ first < trim_cfg.min_trim_ticks =>
                 /\ run.stats.trimmed_start_ticks = 0
                 /\ run.after = run.before

\* Threshold 480 and notes in both tracks, the first of them at tick
\* 960: trim_start is 960.
C13_Witness ==
    /\ trim_cfg.min_trim_ticks = 480
    /\ Len(trim_runs) >= 1
    /\ {n.time : n \in Range(trim_runs[1].before.tracks[1].notes)} = {960}
    /\ trim_runs[1].before.tracks[2].notes # <<>>
    /\ trim_runs[1].loads
    /\ trim_runs[1].stats.trimmed_start_ticks = 960
    /\ SetMin(NoteStarts(trim_runs[1].after)) = 0

C15_TrimEndIsTrailingSpace ==
    \A k \in 1..Len(trim_runs) :
        LET run == trim_runs[k]
        IN IF k \in NoteRuns
           THEN LET trailing_space ==
                        LatestEnd(run.before) - SetMax(NoteStops(run.before))
                IN /\ run.stats.original_duration_ticks = LatestEnd(run.before)
                   /\ run.stats.last_note_time = SetMax(NoteStops(run.before))
                   /\ run.stats.trimmed_end_ticks =
                        IF trim_cfg.trim_trailing
                           /\ trailing_space >= trim_cfg.min_trim_ticks
                        THEN trailing_space ELSE 0
           ELSE run.stats.trimmed_end_ticks = 0

\* A clip whose leading silence is cut and whose last note ends 520 ticks
\* before the end of the clip.
C15_Witness ==
    /\ Len(trim_runs) >= 1
    /\ trim_cfg.trim_trailing
    /\ trim_runs[1].stats.trimmed_start_ticks = 200
    /\ trim_runs[1].stats.trimmed_end_ticks = 520
    /\ trim_runs[1].stats.new_duration_ticks = 760

\* ---------------------------------------------------------------- C16..C20
Extracted == extraction.pc # "document"

IsProgramChange(msg) == msg.type = "program_change"
IsSetTempo(msg) == msg.type = "set_tempo"
OnPercussionChannel(msg) == HasChannel(msg) /\ msg.channel = 9
IsNote(msg) == msg.type = "note_on" \/ msg.type = "note_off"

\* Positions of the tracks of the document that hold a note event.
NoteTracks == {i \in 1..Len(doc) : \E k \in 1..Len(doc[i]) : IsNote(doc[i][k])}

\* The tempo values of the document in file order.
RECURSIVE TemposFrom(_)
TemposFrom(d) ==
    IF d = <<>> THEN <<>>
    ELSE LET sel == SelectSeq(Head(d), IsSetTempo)
         IN [k \in 1..Len(sel) |-> sel[k].tempo] \o TemposFrom(Tail(d))

\* b is 60000000 / t rounded to the nearest integer, a tie going to the even
\* one.
IsRounded(b, t) ==
    LET twice == IF b * t >= MicrosPerMinute
                 THEN 2 * (b * t - MicrosPerMinute)
                 ELSE 2 * (MicrosPerMinute - b * t)
    IN /\ twice <= t
       /\ twice = t => b % 2 = 0

\* C16: a clip whose track holds a program change is labelled with the
\* General-MIDI name of the program of the first program change of the track,
\* program 0 included, whatever the channels of the track's events.
C16_LabelFromFirstProgramChange ==
    Extracted =>
        \A j \in 1..Len(extraction.tracks) :
            LET clip == extraction.tracks[j]
                pcs == SelectSeq(doc[clip.track_index + 1], IsProgramChange)
            IN pcs # <<>> => clip.instrument = GM_INSTRUMENTS[pcs[1].program]

\* C17: a clip whose track holds no program change is labelled "Percussion"
\* exactly when some event of the track is on channel index 9, and "Unknown"
\* otherwise.
C17_PercussionWithoutProgram ==
    Extracted =>
        \A j \in 1..Len(extraction.tracks) :
            LET clip == extraction.tracks[j]
                track == doc[clip.track_index + 1]
            IN SelectSeq(track, IsProgramChange) = <<>> =>
                  clip.instrument =
                     IF SelectSeq(track, OnPercussionChannel) # <<>>
                     THEN "Percussion" ELSE "Unknown"

\* A track with a note, then its name, then a note on channel 9, and no
\* program change: "Percussion".
C17_Witness ==
    /\ Extracted
    /\ Len(doc) = 1 /\ Len(doc[1]) = 3
    /\ doc[1][1] = Msg("note_on", 0, 0, 0)
    /\ doc[1][2].type = "track_name"
    /\ OnPercussionChannel(doc[1][3])
    /\ Len(extraction.tracks) = 1
    /\ extraction.tracks[1].instrument = "Percussion"

\* C18: the clips are the tracks that hold a note_on or a note_off, in file
\* order, each with its track and its index in the document; the other
\* tracks are dropped, with no error message when a clip remains.
C18_ClipIffNoteEvent ==
    Extracted =>
        /\ Len(extraction.tracks) = Cardinality(NoteTracks)
        /\ \A j \in 1..Len(extraction.tracks) :
              /\ extraction.tracks[j].track_index + 1 \in NoteTracks
              /\ extraction.tracks[j].midi_data
                    = doc[extraction.tracks[j].track_index + 1]
              /\ j > 1 => extraction.tracks[j - 1].track_index
                             < extraction.tracks[j].track_index
        /\ NoteTracks # {} => extraction.error = ""

\* A first track with a message but no note is dropped; the second, whose
\* only note event is a note_off, is the one clip and carries index 1.
C18_Witness ==
    /\ Extracted
    /\ Len(doc) = 2
    /\ doc[1] # <<>>
    /\ NoteTracks = {2}
    /\ \A k \in 1..Len(doc[2]) : doc[2][k].type # "note_on"
    /\ Len(extraction.tracks) = 1
    /\ extraction.tracks[1].track_index = 1
    /\ extraction.error = ""

\* C19: for a document none of whose tracks holds a note event, the
\* extraction returns no clip and the no-tracks message (nothing is raised),
\* and the worker returns its empty log without reaching the track loop or
\* writing a file.
C19_NoTracksSkipsFile ==
    (Extracted /\ NoteTracks = {}) =>
        /\ extraction.tracks = <<>>
        /\ extraction.error = "No non-empty tracks found in MIDI file"
        /\ extraction.pc \in {"extracted", "returned"}
        /\ extraction.extraction_log = <<>>
        /\ \A p \in Paths : disk[p] = Absent /\ tmp[p] = Absent

\* Two tracks with messages and no note: the worker has returned.
C19_Witness ==
    /\ Len(doc) = 2
    /\ doc[1] # <<>> /\ doc[2] # <<>>
    /\ NoteTracks = {}
    /\ extraction.pc = "returned"
    /\ extraction.error # ""

\* C20: the file tempo is round(60000000 / t) for the value t of the first
\* tempo event in file order, and it is None exactly when the document holds
\* no tempo event.
C20_FirstTempoOrNone ==
    Extracted =>
        LET ts == TemposFrom(doc)
        IN IF ts = <<>> THEN extraction.file_bpm.none
           ELSE /\ ~extraction.file_bpm.none
                /\ IsRounded(extraction.file_bpm.value, ts[1])

\* C20, amended: the file tempo is round(60000000 / t) for the value t of
\* the first tempo event in file order, later tempo events never count, and
\* it is None exactly when the document holds no tempo event or t is 0.
C20_FirstTempoUnlessZero ==
    Extracted =>
        LET ts == TemposFrom(doc)
        IN IF ts = <<>> \/ ts[1] = 0 THEN extraction.file_bpm.none
           ELSE /\ ~extraction.file_bpm.none
                /\ IsRounded(extraction.file_bpm.value, ts[1])

\* The first tempo event, 4800000, sits in the second track and others follow
\* it: the file tempo is 12.
C20_Witness ==
    /\ Extracted
    /\ Len(doc) = 2
    /\ TemposFrom(<<doc[1]>>) = <<>>
    /\ Len(TemposFrom(doc)) = 2
    /\ TemposFrom(doc)[1] = 4800000
    /\ TemposFrom(doc)[2] # 4800000
    /\ extraction.file_bpm = Bpm(12)

CollectedFiles == {f \in Files : fut[f] = "collected"}

\* C28: every file the collection loop has handled is counted in exactly
\* one of processed, skipped_corrupted and timeouts, so that once the
\* extraction phase is over the three add up to the number of listed files;
\* extracted_tracks is the number of log entries collected; and
\* duplicates_skipped never exceeds extracted_tracks.
C28_CountersAddUp ==
    mode = "batch" =>
        /\ stats.processed + stats.skipped_corrupted + stats.timeouts
                = Cardinality(CollectedFiles)
        /\ phase # "extract" =>
                stats.processed + stats.skipped_corrupted + stats.timeouts
                    = NumFiles
        /\ stats.extracted_tracks = Len(all_results)
        /\ stats.duplicates_skipped <= stats.extracted_tracks
        /\ DedupFinished =>
                stats.duplicates_skipped
                    = Cardinality({k \in 1..Len(all_results) :
                                        all_results[k].is_duplicate})

\* The dedup pass is over: one file was processed and gave two clips, one of
\* them a duplicate, and the other file raised in its worker.
C28_Witness ==
    /\ mode = "batch"
    /\ DedupFinished
    /\ stats.processed = 1
    /\ stats.skipped_corrupted = 1
    /\ \E f \in Files : <<"error", f>> \in Range(stats.errors)
    /\ stats.extracted_tracks = 2
    /\ stats.duplicates_skipped = 1

\* ---------------------------------------------------------------- C30
\* C30: without delete_after_processing no source file is ever removed;
\* every file the collection loop has handled is in files_to_delete exactly
\* once, whether it was processed, skipped or in error, so that after the
\* extraction phase files_to_delete holds every listed file once; with
\* delete_after_processing, at the end of the run each of them is removed or
\* its failed removal is recorded.
C30_EverySourceScheduledOnce ==
    mode = "batch" =>
        /\ ~delete_after => src = Files
        /\ \A f \in Files :
              Cardinality({k \in 1..Len(files_to_delete) : files_to_delete[k] = f})
                = IF f \in CollectedFiles THEN 1 ELSE 0
        /\ phase # "extract" => Range(files_to_delete) = Files
        /\ (delete_after /\ phase = "done") =>
              \A f \in Files :
                 f \notin src \/ <<"delete_failed", f>> \in Range(stats.errors)

\* A run with delete_after_processing at its end: a file that gave clips and
\* a file that gave none are both removed.
C30_Witness ==
    /\ mode = "batch"
    /\ delete_after
    /\ phase = "done"
    /\ src = {}
    /\ stats.processed = 1
    /\ stats.skipped_corrupted = 1
    /\ \E f \in Files : \A k \in 1..Len(all_results) : all_results[k].source_file # f

\* ---------------------------------------------------------------- C27
TrimRunExited == mode = "trimrun" /\ trim_report.pc = "exited"

\* The files of the input directory trim_file cannot process: those that
\* do not load and those without a note.
FailingFiles ==
    {k \in 1..Len(trim_report.files) :
        ~trim_report.files[k].loads
        \/ count_notes(trim_report.files[k].score) = 0}

Timed == mode = "duration" /\ timing.pc = "returned"

\* The ticks of every track of the timed file.
TicksOfTracks == {TrackTicks(timing.tracks[t]) : t \in 1..Len(timing.tracks)}

\* s is total / (2 * tpb) rounded to the nearest integer, a tie to the even
\* one.
IsHalfBeatsRounded(s, total, tpb) ==
    LET d == IF tpb > 0 THEN 2 * tpb ELSE 0 - 2 * tpb
        n == IF tpb > 0 THEN total ELSE 0 - total
        off == IF 2 * (s * d - n) >= 0 THEN 2 * (s * d - n) ELSE 2 * (n - s * d)
    IN off < d \/ (off = d /\ s % 2 = 0)

\* The file with every tempo change turned into one to the given tempo.
Retimed(tracks, tempo) ==
    [t \in DOMAIN tracks |->
        [k \in DOMAIN tracks[t] |->
            IF tracks[t][k].type = "set_tempo"
            THEN [tracks[t][k] EXCEPT !.tempo = tempo] ELSE tracks[t][k]]]

\* C21: with total_ticks the largest sum of tick deltas of a track,
\* get_duration_seconds returns max(1, round(total_ticks / ticks_per_beat *
\* 0.5)) when ticks_per_beat is not 0 and total_ticks > 0, and 0 otherwise;
\* the tempo values of the file make no difference.
C21_DurationAtDefaultTempo ==
    Timed =>
        LET total == SetMax({0} \cup TicksOfTracks)
        IN /\ IF timing.loads /\ timing.ticks_per_beat # 0 /\ total > 0
              THEN \E s \in -10..10 :
                      /\ IsHalfBeatsRounded(s, total, timing.ticks_per_beat)
                      /\ timing.seconds = IF s > 1 THEN s ELSE 1
              ELSE timing.seconds = 0
           /\ \A tempo \in {250000, 500000, 1000000} :
                 timing.seconds =
                    get_duration_seconds(timing.loads, timing.ticks_per_beat,
                                         Retimed(timing.tracks, tempo))

\* 480 ticks per beat and two tracks, the longer of 2400 ticks with a
\* tempo change to 240 beats per minute in it: 2.5 seconds at the default
\* tempo, returned as 2.
C21_Witness ==
    /\ Timed
    /\ timing.ticks_per_beat = 480
    /\ Len(timing.tracks) = 2
    /\ TicksOfTracks = {0, 2400}
    /\ \E k \in 1..Len(timing.tracks[2]) :
          /\ timing.tracks[2][k].type = "set_tempo"
          /\ timing.tracks[2][k].tempo = 250000
    /\ timing.seconds = 2

\* ---------------------------------------------------------------- C25
Parsed == mode = "parse" /\ metadata.pc = "parsed"

\* The filename without its extension: what comes before its last dot.
Stem ==
    LET dots == {k \in 1..Len(metadata.filename) : metadata.filename[k] = "."}
    IN IF dots = {} THEN metadata.filename
       ELSE SubSeq(metadata.filename, 1, SetMax(dots) - 1)

\* n digits start at position p of the stem and, after any white space,
\* "BPM" follows them in some case.
DigitsBeforeBpm(p, n) ==
    /\ p + n - 1 <= Len(Stem)
    /\ \A k \in p..(p + n - 1) : IsDigit(Stem[k])
    /\ \E q \in (p + n)..(Len(Stem) - 2) :
          /\ \A k \in (p + n)..(q - 1) : Stem[k] = " "
          /\ Stem[q] \in {"b", "B"}
          /\ Stem[q + 1] \in {"p", "P"}
          /\ Stem[q + 2] \in {"m", "M"}

\* Where a 2-3 digit number followed by BPM starts in the stem.
BpmStarts == {p \in 1..Len(Stem) : DigitsBeforeBpm(p, 2) \/ DigitsBeforeBpm(p, 3)}

\* The decimal value of the n characters from position p of the stem.
Decimal(p, n) ==
    LET v(k) == IndexIn(DigitChars, Stem[k]) - 1
    IN IF n = 3 THEN 100 * v(p) + 10 * v(p + 1) + v(p + 2)
       ELSE 10 * v(p) + v(p + 1)

\* C25: bpm is the value of the first run of two or three digits (three if
\* there are three) that is followed by "BPM" in any case, white space
\* allowed in between, in the filename without its extension, and None if
\* there is no such run; the two example filenames give 194 and 140.
C25_BpmIsFirstMatch ==
    Parsed =>
        /\ IF BpmStarts = {} THEN metadata.bpm = NoBpm
           ELSE LET p == SetMin(BpmStarts)
                IN metadata.bpm =
                      Bpm(IF DigitsBeforeBpm(p, 3) THEN Decimal(p, 3)
                          ELSE Decimal(p, 2))
        /\ metadata.filename = CymaticsName => metadata.bpm = Bpm(194)
        /\ metadata.filename = TrackName => metadata.bpm = Bpm(140)

\* "40Bpm194Bpm": two numbers are followed by BPM and the first one, 40, is
\* returned.
C25_Witness ==
    /\ Parsed
    /\ metadata.filename = <<"4", "0", "B", "p", "m", "1", "9", "4", "B", "p", "m">>
    /\ metadata.bpm = Bpm(40)

\* ---------------------------------------------------------------- C26
MajorText == <<"m", "a", "j", "o", "r">>
MinorText == <<"m", "i", "n", "o", "r">>

\* "<Letter>[#|b] major" and "<Letter>[#|b] minor".
KeyHints ==
    {<<letter>> \o accidental \o <<" ">> \o text :
        letter \in {"A", "B", "C", "D", "E", "F", "G"},
        accidental \in {<<>>, <<"#">>, <<"b">>},
        text \in {MajorText, MinorText}}

\* The stem holds the word at position q, in some case.
WordAt(q, word) ==
    /\ q + Len(word) - 1 <= Len(Stem)
    /\ \A k \in 1..Len(word) : Lower(Stem[q + k - 1]) = word[k]

\* A key form starts at position p of the stem: a letter A-G in either
\* case, '#' or 'b' or neither, then white space with at most one dash in it,
\* or nothing, then one of the words.
KeyFormAt(p, words) ==
    /\ Lower(Stem[p]) \in {"a", "b", "c", "d", "e", "f", "g"}
    /\ \E e \in {p + 1, p + 2} :
          /\ e = p + 2 => (p + 1 <= Len(Stem) /\ Stem[p + 1] \in {"#", "b", "B"})
          /\ \E q \in e..Len(Stem) :
                /\ \A k \in e..(q - 1) : Stem[k] \in {" ", "-"}
                /\ Cardinality({k \in e..(q - 1) : Stem[k] = "-"}) <= 1
                /\ \E word \in words : WordAt(q, word)

\* Major forms end in maj, major or dur, minor forms in m, min or minor; the
\* compact forms are among them.
MajorStarts ==
    {p \in 1..Len(Stem) : KeyFormAt(p, {<<"m", "a", "j">>, <<"d", "u", "r">>})}
MinorStarts == {p \in 1..Len(Stem) : KeyFormAt(p, {<<"m">>})}

\* The hint for the form that starts at p.
HintAt(p, text) ==
    <<Upper(Stem[p])>>
    \o (IF p + 1 > Len(Stem) THEN <<>>
        ELSE IF Stem[p + 1] = "#" THEN <<"#">>
        ELSE IF Stem[p + 1] \in {"b", "B"} THEN <<"b">> ELSE <<>>)
    \o <<" ">> \o text

\* C26: the key hint comes from the first major form of the name if it has
\* one, whatever comes before it, from its first minor form if it has no
\* major one, and is None without either; it is None or "<Letter>[#|b]
\* major" or "<Letter>[#|b] minor" with the letter in upper case; the two
\* example filenames give "D minor" and "F# minor".
C26_KeyHintByPriority ==
    Parsed =>
        /\ metadata.scale = NoScale \/ metadata.scale.text \in KeyHints
        /\ metadata.scale =
              IF MajorStarts # {} THEN Scale(HintAt(SetMin(MajorStarts), MajorText))
              ELSE IF MinorStarts # {}
              THEN Scale(HintAt(SetMin(MinorStarts), MinorText))
              ELSE NoScale
        /\ metadata.filename = CymaticsName =>
              metadata.scale = Scale(<<"D", " ">> \o MinorText)
        /\ metadata.filename = TrackName =>
              metadata.scale = Scale(<<"F", "#", " ">> \o MinorText)

\* ---------------------------------------------------------------- C22..C24
Detected == mode = "detect" /\ detection.pc = "detected"

\* The hint is a non-empty string.
Hinted == ~detection.filename_hint.none /\ detection.filename_hint.text # <<>>

\* How many note_on messages with a velocity above 0 the file holds in a
\* pitch class, and in each of the 12, C first.
SoundingIn(pc) ==
    LET hits == {msg \in ScaleMsgs :
                    /\ msg.type = "note_on" /\ msg.velocity > 0
                    /\ msg.note % 12 = pc}
    IN SumOver(hits, [msg \in hits |-> detection.midi_file[msg]])

SoundingNotes ==
    <<SoundingIn(0), SoundingIn(1), SoundingIn(2), SoundingIn(3), SoundingIn(4),
      SoundingIn(5), SoundingIn(6), SoundingIn(7), SoundingIn(8), SoundingIn(9),
      SoundingIn(10), SoundingIn(11)>>

\* The key was worked out from the notes of the file.
Computed ==
    /\ Detected /\ ~Hinted /\ detection.loads
    /\ \E pc \in PitchClasses : SoundingIn(pc) > 0

\* The candidate keys in the order they are tried: root 0..11, major before
\* minor.
Candidates == 0..23
RootOf(k) == k \div 2
ProfileOf(k) == IF k % 2 = 0 THEN MAJOR_PROFILE ELSE MINOR_PROFILE
LabelOf(k) ==
    NOTE_NAMES[RootOf(k) + 1] \o <<" ">> \o (IF k % 2 = 0 THEN MajorName ELSE MinorName)

\* The correlations of the first k candidates with the notes of the file.
RECURSIVE CorrelationsTo(_, _)
CorrelationsTo(notes, k) ==
    IF k = 0 THEN <<>>
    ELSE Append(CorrelationsTo(notes, k - 1),
                pearson_correlation(
                    [i \in PitchClasses |-> notes[((RootOf(k - 1) + i) % 12) + 1]],
                    ProfileOf(k - 1)))

IsConfidence(v, p, q) == AtLeast(v, p, q) /\ AtMost(v, p, q)

C23_ProfileGivesItsKey ==
    Computed =>
        \A k \in Candidates :
            (\A i \in PitchClasses :
                SoundingIn((RootOf(k) + i) % 12) = ProfileOf(k)[i + 1])
            => /\ detection.scale_name = LabelOf(k)
               /\ AtLeast(detection.confidence, 9, 10)

\* The minor profile transposed to pitch class 8 gives "Ab Minor" with
\* confidence 1.
C23_Witness ==
    /\ Computed
    /\ \A i \in PitchClasses : SoundingIn((8 + i) % 12) = MINOR_PROFILE[i + 1]
    /\ detection.scale_name = <<"A", "b", " ", "M", "i", "n", "o", "r">>
    /\ IsConfidence(detection.confidence, 1, 1)

\* C24: with a non-empty hint detect_scale returns the hint and 0.95
\* whatever the file is, loadable or not; the confidence is in [0, 1] on
\* every path; without a hint, a file that holds no note_on with a velocity
\* above 0, or that does not load, gives "unknown" and 0.0.
C24_HintOrUnknown ==
    Detected =>
        /\ Hinted =>
              /\ detection.scale_name = detection.filename_hint.text
              /\ IsConfidence(detection.confidence, 95, 100)
        /\ AtLeast(detection.confidence, 0, 1)
        /\ AtMost(detection.confidence, 1, 1)
        /\ (~Hinted /\ (~detection.loads
                        \/ \A pc \in PitchClasses : SoundingIn(pc) = 0)) =>
              /\ detection.scale_name = UnknownName
              /\ IsConfidence(detection.confidence, 0, 1)

\* The hint "D minor" for a file that does not load.
C24_Witness ==
    /\ Detected
    /\ ~detection.loads
    /\ detection.filename_hint = Scale(<<"D", " ", "m", "i", "n", "o", "r">>)
    /\ detection.scale_name = <<"D", " ", "m", "i", "n", "o", "r">>
    /\ IsConfidence(detection.confidence, 95, 100)

====
